---- MODULE Spec2Model ----
(***************************************************************************)
(* Model of ggbot's tool-augmented conversation engine:                    *)
(*   - MCPManager (src/plugins/ai/mcp_manager.go): the session registry    *)
(*     with its RWMutex, the per-session mutexes, ConnectServers, CallTool,*)
(*     GetTools, HealthCheck and Close;                                    *)
(*   - ToolExecutor (src/plugins/ai/tool_executor.go): the bounded         *)
(*     generate / invoke-tools loop.                                       *)
(* Goroutines are the elements of Threads; every blocking lock operation   *)
(* is its own step, so that all interleavings the Go scheduler allows are  *)
(* explored.                                                               *)
(***************************************************************************)
EXTENDS Integers, Sequences, FiniteSets, TLC

(***************************************************************************)
(* Bounds of the model.                                                    *)
(***************************************************************************)
\* number of mcpSession objects ever allocated in one behaviour
MaxSessions == 3
\* failCount is an unbounded int in the code; failures stop being generated here
MaxFailCount == 6
\* distinct readings of time.Now(); the clock stays at its last reading after that
MaxClock == 1
\* generations in which the model endpoint answers freely; from then on it
\* repeats its last answer
MaxAnswers == 2

(***************************************************************************)
(* Program constants.                                                      *)
(***************************************************************************)
\* one attempt more than the code allows
threeAttempts == 2 + 1

\* const maxRetries = 2
maxRetries == 2
\* sess.failCount < 5
HealthThreshold == 5
\* time.Duration(attempt) * 500 * time.Millisecond
BackoffUnitMs == 500

(***************************************************************************)
(* The environment: provider names, and the tools each provider lists on   *)
(* discovery (session.Tools), in listing order.  "b" is advertised by two  *)
(* providers; "zz" is advertised by none.                                  *)
(***************************************************************************)
Providers == {"p1", "p2", "p3"}
ToolNames == {"a", "b", "c", "zz"}
Advertised(p) ==
    IF p = "p1" THEN <<"a", "b">> ELSE IF p = "p2" THEN <<"b">> ELSE <<"c">>

Callers == {"c1", "c2"}
Admin == "adm"
Threads == Callers \cup {Admin}
NoThread == "none"
NoSess == 0

VARIABLES
    sessions,   \* MCPManager.sessions : provider name -> session id (NoSess = absent)
    toolMap,    \* MCPManager.toolMap  : tool name -> session id (NoSess = absent)
    tools,      \* MCPManager.tools    : the catalog, a sequence of tool names
    mu,         \* MCPManager.mu       : [writer, readers] of the RWMutex
    sess,       \* the heap of mcpSession objects, indexed by session id
    smu,        \* mcpSession.mu       : holder of each session's mutex
    now,        \* the last reading of time.Now()
    th,         \* per goroutine: program counter and locals
    ret,        \* per goroutine: what its last operation returned
    hist,       \* history: the tool names ever registered; whether the last
                \* registry-wide operation to complete was Close
    ex,         \* the locals of the one run of ToolExecutor.ExecuteWithTools
    sch,        \* the goroutine of AIPlugin.startScheduler: its configuration,
                \* its clock, its locals and what it fired and sent
    tr,         \* the memory of the transcripts: the arrays behind the slices,
                \* the caller's slice and the slice of each run
    store       \* storage.Storage: its lock, its map, its file and the
                \* goroutines that call it

vars == <<sessions, toolMap, tools, mu, sess, smu, now, th, ret, hist, ex, sch,
          tr, store>>

SessIds == 1..MaxSessions

Range(f) == {f[x] : x \in DOMAIN f}

(***************************************************************************)
(* mcpSession{session, name, lastUsed, failCount, closed}                  *)
(* closeCalls counts the calls of session.Close() on the connection.       *)
(***************************************************************************)
newSession(name, t) ==
    [name |-> name, lastUsed |-> t, failCount |-> 0, closed |-> FALSE,
     closeCalls |-> 0]

\* a health test that is off by one at the threshold
isHealthyUpToThreshold(s) == ~s.closed /\ s.failCount <= HealthThreshold

\* isHealthy := !sess.closed && sess.failCount < 5
isHealthy(s) == ~s.closed /\ s.failCount < HealthThreshold

\* a success that takes one failure back instead of resetting the counter
recordSuccessDecrement(s, t) ==
    [s EXCEPT !.lastUsed = t, !.failCount = IF @ > 0 THEN @ - 1 ELSE 0]

\* a success that resets the counter and forgets the time stamp
recordSuccessKeepTime(s, t) == [s EXCEPT !.failCount = 0]

\* sess.lastUsed = time.Now(); sess.failCount = 0
recordSuccess(s, t) == [s EXCEPT !.lastUsed = t, !.failCount = 0]

\* sess.failCount++
recordFailure(s) == [s EXCEPT !.failCount = @ + 1]

\* a pause that counts the attempts from one
backoffCountingFromOne(attempt) == (attempt + 1) * BackoffUnitMs

\* time.Duration(attempt) * 500 * time.Millisecond
backoff(attempt) == attempt * BackoffUnitMs

\* sess.session.Close(); sess.closed = true   (only if !sess.closed)
closeSession(s) ==
    IF s.closed THEN s
    ELSE [s EXCEPT !.closed = TRUE, !.closeCalls = @ + 1]

\* health := make(map[string]bool)
NoHealth == [p \in Providers |-> "absent"]

(***************************************************************************)
(* Locals of a goroutine.                                                  *)
(***************************************************************************)
Idle ==
    [pc |-> "idle", tool |-> "zz", sess |-> NoSess, attempt |-> 0,
     started |-> 0, bumps |-> 0, lastErr |-> 0, waits |-> <<>>,
     afterShut |-> FALSE, known |-> FALSE,
     pending |-> {}, cur |-> "none", cfgs |-> {}, connFailed |-> {},
     discFailed |-> {}, health |-> NoHealth, errs |-> {}]

NoRet == [op |-> "none", kind |-> "none", val |-> <<>>]
\* what a CallTool that made no attempt reports
NoCall(t) ==
    [tool |-> th[t].tool, afterShut |-> th[t].afterShut,
     known |-> th[t].known, started |-> 0,
     bumps |-> 0]

\* the locals of ExecuteWithTools before the run; gens, formats and summaries
\* count the calls of Generate with tools, for formatting, and for the
\* forced final reply; toolTurns counts the replies that carried tool calls; formatted
\* tells how the formatting call ended ("none" while there was none);
\* expired tells that the deadline of the context the caller passed is over
ExIdle ==
    [pc |-> "idle", arg |-> 0, maxIterations |-> 0, platformPrompt |-> "",
     i |-> 0,
     messages |-> <<>>, tools |-> <<>>, pending |-> <<>>,
     last |-> <<>>, finalContent |-> "", gens |-> 0, formats |-> 0, summaries |-> 0,
     toolTurns |-> 0, formatted |-> "none", expired |-> FALSE,
     offered |-> <<>>,
     result |-> [kind |-> "none", content |-> ""]]

\* the scheduler while cfg.Push.Enabled is false: no goroutine is started
SchedulerOff ==
    [pc |-> "off", time |-> <<>>, zone |-> "fixed", targets |-> <<>>,
     now |-> 0, next |-> 0, fired |-> <<>>,
     content |-> "", queue |-> <<>>, sent |-> <<>>, sendTo |-> TRUE]

InitManager ==
    /\ sessions = [p \in Providers |-> NoSess]
    /\ toolMap = [n \in ToolNames |-> NoSess]
    /\ tools = <<>>
    /\ mu = [writer |-> NoThread, readers |-> {}, waiting |-> NoThread]
    /\ sess = <<>>
    /\ smu = [i \in SessIds |-> NoThread]
    /\ now = 0
    /\ th = [t \in Threads |-> Idle]
    /\ ret = [t \in Threads |-> NoRet]
    /\ hist = [registered |-> {}, shut |-> FALSE]
    /\ ex = ExIdle

\* no run of ExecuteWithTools is looked at in memory
NoRuns == [heap |-> <<>>, caller |-> [arr |-> 0, len |-> 0, cap |-> 0],
           runs |-> <<>>]

\* no storage.Storage is looked at
NoStore == [mu |-> [writer |-> NoThread, readers |-> {}, waiting |-> NoThread],
            UserData |-> <<>>,
            file |-> <<>>, g |-> <<>>, applied |-> <<>>, loaded |-> <<>>]

Init == InitManager /\ sch = SchedulerOff /\ tr = NoRuns /\ store = NoStore

\* time.Now() after time has passed: a later reading, up to the clock's last one
timeNow == IF now < MaxClock THEN now + 1 ELSE now

(***************************************************************************)
(* sync.RWMutex and sync.Mutex.                                            *)
(***************************************************************************)
\* a read lock that does not wait for the writer
CanRLockBesideWriter == TRUE

\* RLock waits while a writer holds the lock or waits in Lock for the readers
\* to leave; readers do not wait for readers
CanRLock == mu.writer = NoThread /\ mu.waiting = NoThread
\* Lock returns at once when nobody holds the lock
CanLock == mu.writer = NoThread /\ mu.waiting = NoThread /\ mu.readers = {}
\* Lock is called while readers hold the lock: the caller waits in it
MustWait == mu.writer = NoThread /\ mu.waiting = NoThread /\ mu.readers # {}
LockWait(t) == [mu EXCEPT !.waiting = t]
RLock(t) == [mu EXCEPT !.readers = @ \cup {t}]
RUnlock(t) == [mu EXCEPT !.readers = @ \ {t}]
Lock(t) == [mu EXCEPT !.writer = t, !.waiting = NoThread]
Unlock(t) == [mu EXCEPT !.writer = NoThread]

Return(t, op, kind, val) ==
    /\ th' = [th EXCEPT ![t] = Idle]
    /\ ret' = [ret EXCEPT ![t] = [op |-> op, kind |-> kind, val |-> val]]

(***************************************************************************)
(* MCPManager.CallTool(toolName)                                           *)
(***************************************************************************)
\* m.mu.RLock()
CallToolBegin(t, name) ==
    /\ th[t].pc = "idle"
    /\ CanRLock
    /\ mu' = RLock(t)
    /\ th' = [th EXCEPT ![t] = [Idle EXCEPT !.pc = "ct_lookup", !.tool = name,
                                            !.afterShut = hist.shut,
                                            !.known = name \in hist.registered]]
    /\ ret' = [ret EXCEPT ![t] = NoRet]
    /\ UNCHANGED <<sessions, toolMap, tools, sess, smu, now, hist>>

\* a lookup that falls back to the first session when the name is unknown
lookupOrFirst(name) ==
    IF toolMap[name] # NoSess THEN toolMap[name]
    ELSE IF Len(sess) > 0 THEN 1 ELSE NoSess

\* sess, ok := m.toolMap[toolName]
lookup(name) == toolMap[name]

\* sess, ok := m.toolMap[toolName]; m.mu.RUnlock();
\* if !ok { return "", "tool not found" }
CallToolLookup(t) ==
    /\ th[t].pc = "ct_lookup"
    /\ mu' = RUnlock(t)
    /\ IF lookup(th[t].tool) = NoSess
       THEN Return(t, "CallTool", "ToolNotFound", NoCall(t))
       ELSE /\ th' = [th EXCEPT ![t].pc = "ct_lockcheck",
                                ![t].sess = lookup(th[t].tool)]
            /\ UNCHANGED ret
    /\ UNCHANGED <<sessions, toolMap, tools, sess, smu, now, hist>>

\* sess.mu.Lock()     (before the closed check)
CallToolLockCheck(t) ==
    /\ th[t].pc = "ct_lockcheck"
    /\ smu[th[t].sess] = NoThread
    /\ smu' = [smu EXCEPT ![th[t].sess] = t]
    /\ th' = [th EXCEPT ![t].pc = "ct_check"]
    /\ UNCHANGED <<sessions, toolMap, tools, mu, sess, now, hist, ret>>

\* a check that counts the call on a closed session as one more failure
CallToolCheckCounting(t) ==
    /\ th[t].pc = "ct_check"
    /\ smu' = [smu EXCEPT ![th[t].sess] = NoThread]
    /\ IF sess[th[t].sess].closed
       THEN /\ Return(t, "CallTool", "SessionClosed", NoCall(t))
            /\ sess' = [sess EXCEPT ![th[t].sess] = recordFailure(@)]
       ELSE /\ th' = [th EXCEPT ![t].pc = "ct_attempt"]
            /\ UNCHANGED <<ret, sess>>
    /\ UNCHANGED <<sessions, toolMap, tools, mu, now, hist>>

\* a check whose return on a closed session leaves sess.mu locked
CallToolCheckKeepingLock(t) ==
    /\ th[t].pc = "ct_check"
    /\ IF sess[th[t].sess].closed
       THEN /\ Return(t, "CallTool", "SessionClosed", NoCall(t))
            /\ UNCHANGED smu
       ELSE /\ th' = [th EXCEPT ![t].pc = "ct_attempt"]
            /\ smu' = [smu EXCEPT ![th[t].sess] = NoThread]
            /\ UNCHANGED ret
    /\ UNCHANGED <<sessions, toolMap, tools, mu, sess, now, hist>>

\* if sess.closed { sess.mu.Unlock(); return "", "session closed" }
\* sess.mu.Unlock()
CallToolCheck(t) ==
    /\ th[t].pc = "ct_check"
    /\ smu' = [smu EXCEPT ![th[t].sess] = NoThread]
    /\ IF sess[th[t].sess].closed
       THEN Return(t, "CallTool", "SessionClosed", NoCall(t))
       ELSE /\ th' = [th EXCEPT ![t].pc = "ct_attempt"]
            /\ UNCHANGED ret
    /\ UNCHANGED <<sessions, toolMap, tools, mu, sess, now, hist>>

\* for attempt := 0; attempt < maxRetries; attempt++ {
\*   if attempt > 0 { time.Sleep(attempt * 500ms) }
\*   result, err := m.executeToolCall(...)       -- the attempt goes out
CallToolAttempt(t) ==
    /\ th[t].pc = "ct_attempt"
    /\ th' = [th EXCEPT ![t].pc = "ct_inflight",
                        ![t].started = @ + 1,
                        ![t].waits = IF th[t].attempt > 0
                                     THEN Append(@, backoff(th[t].attempt))
                                     ELSE @]
    /\ UNCHANGED <<sessions, toolMap, tools, mu, sess, smu, now, hist, ret>>

\* executeToolCall returns; err == nil  ->  sess.mu.Lock()
CallToolSucceeded(t) ==
    /\ th[t].pc = "ct_inflight"
    /\ smu[th[t].sess] = NoThread
    /\ smu' = [smu EXCEPT ![th[t].sess] = t]
    /\ th' = [th EXCEPT ![t].pc = "ct_ok"]
    /\ UNCHANGED <<sessions, toolMap, tools, mu, sess, now, hist, ret>>

\* sess.lastUsed = time.Now(); sess.failCount = 0; sess.mu.Unlock(); return result, nil
CallToolRecordOk(t) ==
    /\ th[t].pc = "ct_ok"
    /\ now' = timeNow
    /\ sess' = [sess EXCEPT ![th[t].sess] = recordSuccess(@, now')]
    /\ smu' = [smu EXCEPT ![th[t].sess] = NoThread]
    /\ Return(t, "CallTool", "ok",
              [tool |-> th[t].tool, afterShut |-> th[t].afterShut,
                 known |-> th[t].known,
               sess |-> th[t].sess, started |-> th[t].started,
               bumps |-> th[t].bumps, cause |-> 0, waits |-> th[t].waits])
    /\ UNCHANGED <<sessions, toolMap, tools, mu, hist>>

\* a failure that keeps the error of the first failed attempt
CallToolFailedKeepingFirst(t) ==
    /\ th[t].pc = "ct_inflight"
    /\ sess[th[t].sess].failCount < MaxFailCount
    /\ smu[th[t].sess] = NoThread
    /\ smu' = [smu EXCEPT ![th[t].sess] = t]
    /\ th' = [th EXCEPT ![t].pc = "ct_fail",
                        ![t].lastErr = IF @ = 0 THEN th[t].attempt + 1 ELSE @]
    /\ UNCHANGED <<sessions, toolMap, tools, mu, sess, now, hist, ret>>

\* a failure that is recorded without taking the session's lock
CallToolFailedUnlocked(t) ==
    /\ th[t].pc = "ct_inflight"
    /\ sess[th[t].sess].failCount < MaxFailCount
    /\ th' = [th EXCEPT ![t].pc = "ct_fail", ![t].lastErr = th[t].attempt + 1]
    /\ UNCHANGED <<sessions, toolMap, tools, mu, sess, smu, now, hist, ret>>

\* executeToolCall returns; err != nil  ->  lastErr = err; sess.mu.Lock()
CallToolFailed(t) ==
    /\ th[t].pc = "ct_inflight"
    /\ sess[th[t].sess].failCount < MaxFailCount
    /\ smu[th[t].sess] = NoThread
    /\ smu' = [smu EXCEPT ![th[t].sess] = t]
    /\ th' = [th EXCEPT ![t].pc = "ct_fail", ![t].lastErr = th[t].attempt + 1]
    /\ UNCHANGED <<sessions, toolMap, tools, mu, sess, now, hist, ret>>

\* sess.failCount++; sess.mu.Unlock(); attempt++
\* after the loop: return "", "tool call failed after 2 attempts: %w", lastErr
nextAttempt(t, bumps) ==
    IF th[t].attempt + 1 < maxRetries
    THEN /\ th' = [th EXCEPT ![t].pc = "ct_attempt", ![t].attempt = @ + 1,
                             ![t].bumps = bumps]
         /\ UNCHANGED ret
    ELSE Return(t, "CallTool", "InvocationFailed",
                [tool |-> th[t].tool, afterShut |-> th[t].afterShut,
                 known |-> th[t].known,
                 sess |-> th[t].sess, started |-> th[t].started,
                 bumps |-> bumps, cause |-> th[t].lastErr,
                 waits |-> th[t].waits])

CallToolRecordFail(t) ==
    /\ th[t].pc = "ct_fail"
    /\ sess' = [sess EXCEPT ![th[t].sess] = recordFailure(@)]
    /\ smu' = [smu EXCEPT ![th[t].sess] = NoThread]
    /\ nextAttempt(t, th[t].bumps + 1)
    /\ UNCHANGED <<sessions, toolMap, tools, mu, now, hist>>

\* the steps of a CallTool that has begun
CallToolSteps(t) ==
    \/ CallToolLookup(t)
    \/ CallToolLockCheck(t)
    \/ CallToolCheck(t)
    \/ CallToolAttempt(t)
    \/ CallToolSucceeded(t)
    \/ CallToolRecordOk(t)
    \/ CallToolFailed(t)
    \/ CallToolRecordFail(t)

CallTool(t) ==
    \/ \E name \in ToolNames : CallToolBegin(t, name)
    \/ CallToolSteps(t)

(***************************************************************************)
(* MCPManager.ConnectServers(mcpConfigs)                                   *)
(***************************************************************************)
\* m.mu.Lock(); defer m.mu.Unlock()
ConnectServersBegin(t, cfgs) ==
    /\ th[t].pc = "idle"
    /\ Len(sess) + Cardinality(cfgs) <= MaxSessions
    /\ CanLock
    /\ mu' = Lock(t)
    /\ th' = [th EXCEPT ![t] = [Idle EXCEPT !.pc = "cs_loop", !.pending = cfgs,
                                            !.cfgs = cfgs]]
    /\ ret' = [ret EXCEPT ![t] = NoRet]
    /\ hist' = [hist EXCEPT !.shut = FALSE]
    /\ UNCHANGED <<sessions, toolMap, tools, sess, smu, now>>

\* m.mu.Lock() of ConnectServers called while readers hold the lock
ConnectServersBlocked(t, cfgs) ==
    /\ th[t].pc = "idle"
    /\ Len(sess) + Cardinality(cfgs) <= MaxSessions
    /\ MustWait
    /\ mu' = LockWait(t)
    /\ th' = [th EXCEPT ![t] = [Idle EXCEPT !.pc = "cs_wait", !.cfgs = cfgs]]
    /\ ret' = [ret EXCEPT ![t] = NoRet]
    /\ UNCHANGED <<sessions, toolMap, tools, sess, smu, now, hist>>

\* ... the last reader has left: m.mu.Lock() returns
ConnectServersUnblocked(t) ==
    /\ th[t].pc = "cs_wait"
    /\ mu.readers = {}
    /\ mu' = Lock(t)
    /\ th' = [th EXCEPT ![t].pc = "cs_loop", ![t].pending = th[t].cfgs]
    /\ hist' = [hist EXCEPT !.shut = FALSE]
    /\ UNCHANGED <<sessions, toolMap, tools, sess, smu, now, ret>>

\* registerTools: for each listed tool, m.tools = append(m.tools, def);
\* m.toolMap[tool.Name] = sess
RECURSIVE registerCatalog(_, _)
registerCatalog(cat, listed) ==
    IF listed = <<>> THEN cat
    ELSE registerCatalog(Append(cat, Head(listed)), Tail(listed))

registerIndex(idx, listed, sid) ==
    [n \in ToolNames |-> IF n \in Range(listed) THEN sid ELSE idx[n]]

\* if err := m.connectServer(...); err != nil { log; continue }
continueAfter(pending, p) == pending \ {p}

\* a connect that reopens the provider's old session object when there is one
storeSessionReopening(heap, s) ==
    IF \E i \in 1..Len(heap) : heap[i].name = s.name
    THEN [heap EXCEPT ![CHOOSE i \in 1..Len(heap) : heap[i].name = s.name] = s]
    ELSE Append(heap, s)

\* mcpSess := &mcpSession{...}: a new object every time
storeSession(heap, s) == Append(heap, s)

\* What the provider does on this connect: the dial succeeds or not,
\* discovery lists `listed` tools and then ends or reports an error, and
\* marshalSchema fails on the input schemas of the tools in `schemaErr`.
ConnectOutcomes(p) ==
    [connected : BOOLEAN, listed : 0..Len(Advertised(p)), discErr : BOOLEAN,
     schemaErr : SUBSET Range(Advertised(p))]

\* connectServer returns nil: a tool skipped on a marshalSchema error is
\* only logged
OutcomeOk(p, o) ==
    /\ o.connected
    /\ ~o.discErr
    /\ o.listed = Len(Advertised(p))

\* connectServer(name, mcpCfg), one iteration of `for name, mcpCfg := range mcpConfigs`
connectServer(t, p, o) ==
    /\ th[t].pc = "cs_loop"
    /\ p \in th[t].pending
    /\ o.connected => (o.discErr \/ o.listed = Len(Advertised(p)))
    /\ ~o.connected => (o.listed = 0 /\ ~o.discErr)
    /\ o.schemaErr \subseteq Range(SubSeq(Advertised(p), 1, o.listed))
    /\ IF ~o.connected
       THEN \* return fmt.Errorf("connect failed: %w", err)
            /\ th' = [th EXCEPT ![t].pending = continueAfter(@, p),
                                ![t].connFailed = @ \cup {p}]
            /\ UNCHANGED <<sessions, toolMap, tools, sess, hist>>
       ELSE LET heap == storeSession(sess, newSession(p, now))
                sid == Len(heap)
                \* schemaBytes, err := marshalSchema(tool.InputSchema)
                \* if err != nil { log; continue }
                listed == SelectSeq(SubSeq(Advertised(p), 1, o.listed),
                                    LAMBDA n : n \notin o.schemaErr)
            IN  /\ sess' = heap
                /\ sessions' = [sessions EXCEPT ![p] = sid]
                /\ tools' = registerCatalog(tools, listed)
                /\ toolMap' = registerIndex(toolMap, listed, sid)
                /\ hist' = [hist EXCEPT !.registered = @ \cup Range(listed)]
                /\ th' = [th EXCEPT ![t].pending = continueAfter(@, p),
                                    ![t].discFailed =
                                        IF o.discErr THEN @ \cup {p} ELSE @]
    /\ UNCHANGED <<mu, smu, now, ret>>

\* return nil   (and the deferred m.mu.Unlock())
ConnectServersEnd(t) ==
    /\ th[t].pc = "cs_loop"
    /\ th[t].pending = {}
    /\ mu' = Unlock(t)
    /\ Return(t, "ConnectServers", "nil",
              [cfgs |-> th[t].cfgs, connFailed |-> th[t].connFailed,
               discFailed |-> th[t].discFailed])
    /\ UNCHANGED <<sessions, toolMap, tools, sess, smu, now, hist>>

\* a call of ConnectServers with one of the maps in `configs`
ConnectServers(t, configs) ==
    \/ \E cfgs \in configs : ConnectServersBegin(t, cfgs)
    \/ \E p \in Providers : \E o \in ConnectOutcomes(p) : connectServer(t, p, o)
    \/ ConnectServersEnd(t)

(***************************************************************************)
(* MCPManager.GetTools()                                                   *)
(***************************************************************************)
\* m.mu.RLock(); defer m.mu.RUnlock()
GetToolsBegin(t) ==
    /\ th[t].pc = "idle"
    /\ CanRLock
    /\ mu' = RLock(t)
    /\ th' = [th EXCEPT ![t] = [Idle EXCEPT !.pc = "gt_read"]]
    /\ ret' = [ret EXCEPT ![t] = NoRet]
    /\ UNCHANGED <<sessions, toolMap, tools, sess, smu, now, hist>>

\* return m.tools
GetToolsEnd(t) ==
    /\ th[t].pc = "gt_read"
    /\ mu' = RUnlock(t)
    /\ Return(t, "GetTools", "tools", tools)
    /\ UNCHANGED <<sessions, toolMap, tools, sess, smu, now, hist>>

GetTools(t) == GetToolsBegin(t) \/ GetToolsEnd(t)

(***************************************************************************)
(* MCPManager.HealthCheck()                                                *)
(***************************************************************************)
\* m.mu.RLock(); defer m.mu.RUnlock(); health := make(map[string]bool)
HealthCheckBegin(t) ==
    /\ th[t].pc = "idle"
    /\ CanRLock
    /\ mu' = RLock(t)
    /\ th' = [th EXCEPT ![t] = [Idle EXCEPT
                 !.pc = "hc_loop",
                 !.pending = {p \in Providers : sessions[p] # NoSess}]]
    /\ ret' = [ret EXCEPT ![t] = NoRet]
    /\ UNCHANGED <<sessions, toolMap, tools, sess, smu, now, hist>>

\* for name, sess := range m.sessions { sess.mu.Lock()
HealthCheckLock(t, p) ==
    /\ th[t].pc = "hc_loop"
    /\ p \in th[t].pending
    /\ smu[sessions[p]] = NoThread
    /\ smu' = [smu EXCEPT ![sessions[p]] = t]
    /\ th' = [th EXCEPT ![t].pc = "hc_read", ![t].cur = p]
    /\ UNCHANGED <<sessions, toolMap, tools, mu, sess, now, hist, ret>>

\* isHealthy := ...; sess.mu.Unlock(); health[name] = isHealthy }
HealthCheckRead(t) ==
    /\ th[t].pc = "hc_read"
    /\ LET p == th[t].cur
       IN  /\ smu' = [smu EXCEPT ![sessions[p]] = NoThread]
           /\ th' = [th EXCEPT
                  ![t].pc = "hc_loop", ![t].cur = "none",
                  ![t].pending = @ \ {p},
                  ![t].health = [@ EXCEPT ![p] =
                      IF isHealthy(sess[sessions[p]]) THEN "healthy"
                      ELSE "unhealthy"]]
    /\ UNCHANGED <<sessions, toolMap, tools, mu, sess, now, hist, ret>>

\* return health
HealthCheckEnd(t) ==
    /\ th[t].pc = "hc_loop"
    /\ th[t].pending = {}
    /\ mu' = RUnlock(t)
    /\ Return(t, "HealthCheck", "health", th[t].health)
    /\ UNCHANGED <<sessions, toolMap, tools, sess, smu, now, hist>>

HealthCheck(t) ==
    \/ HealthCheckBegin(t)
    \/ \E p \in Providers : HealthCheckLock(t, p)
    \/ HealthCheckRead(t)
    \/ HealthCheckEnd(t)

(***************************************************************************)
(* MCPManager.Close()                                                      *)
(***************************************************************************)
\* m.mu.Lock(); defer m.mu.Unlock(); var errs []error
CloseBegin(t) ==
    /\ th[t].pc = "idle"
    /\ CanLock
    /\ mu' = Lock(t)
    /\ th' = [th EXCEPT ![t] = [Idle EXCEPT
                 !.pc = "cl_loop",
                 !.afterShut = hist.shut,
                 !.pending = {p \in Providers : sessions[p] # NoSess}]]
    /\ ret' = [ret EXCEPT ![t] = NoRet]
    /\ UNCHANGED <<sessions, toolMap, tools, sess, smu, now, hist>>

\* m.mu.Lock() of Close called while readers hold the lock
CloseBlocked(t) ==
    /\ th[t].pc = "idle"
    /\ MustWait
    /\ mu' = LockWait(t)
    /\ th' = [th EXCEPT ![t] = [Idle EXCEPT !.pc = "cl_wait"]]
    /\ ret' = [ret EXCEPT ![t] = NoRet]
    /\ UNCHANGED <<sessions, toolMap, tools, sess, smu, now, hist>>

\* ... the last reader has left: m.mu.Lock() returns
CloseUnblocked(t) ==
    /\ th[t].pc = "cl_wait"
    /\ mu.readers = {}
    /\ mu' = Lock(t)
    /\ th' = [th EXCEPT ![t].pc = "cl_loop",
                        ![t].afterShut = hist.shut,
                        ![t].pending = {p \in Providers : sessions[p] # NoSess}]
    /\ UNCHANGED <<sessions, toolMap, tools, sess, smu, now, hist, ret>>

\* for name, sess := range m.sessions { sess.mu.Lock()
CloseLock(t, p) ==
    /\ th[t].pc = "cl_loop"
    /\ p \in th[t].pending
    /\ smu[sessions[p]] = NoThread
    /\ smu' = [smu EXCEPT ![sessions[p]] = t]
    /\ th' = [th EXCEPT ![t].pc = "cl_close", ![t].cur = p]
    /\ UNCHANGED <<sessions, toolMap, tools, mu, sess, now, hist, ret>>

\* if !sess.closed { if err := sess.session.Close(); err != nil { errs = append(..) }
\*                   sess.closed = true }
\* sess.mu.Unlock() }
CloseSession(t, closeErr) ==
    /\ th[t].pc = "cl_close"
    /\ LET p == th[t].cur
           sid == sessions[p]
       IN  /\ closeErr => ~sess[sid].closed
           /\ sess' = [sess EXCEPT ![sid] = closeSession(@)]
           /\ smu' = [smu EXCEPT ![sid] = NoThread]
           /\ th' = [th EXCEPT ![t].pc = "cl_loop", ![t].cur = "none",
                               ![t].pending = @ \ {p},
                               ![t].errs = IF closeErr THEN @ \cup {p} ELSE @]
    /\ UNCHANGED <<sessions, toolMap, tools, mu, now, hist, ret>>

\* a Close that forgets to reset the tool index
clearSessionsOnly ==
    /\ sessions' = [p \in Providers |-> NoSess]
    /\ toolMap' = toolMap
    /\ tools' = <<>>

\* a Close that resets the index and the catalog but keeps the session map
clearCatalogOnly ==
    /\ sessions' = sessions
    /\ toolMap' = [n \in ToolNames |-> NoSess]
    /\ tools' = <<>>

\* m.sessions = make(map); m.toolMap = make(map); m.tools = nil
clearRegistry ==
    /\ sessions' = [p \in Providers |-> NoSess]
    /\ toolMap' = [n \in ToolNames |-> NoSess]
    /\ tools' = <<>>

\* ...; if len(errs) > 0 { return error }; return nil
CloseEnd(t) ==
    /\ th[t].pc = "cl_loop"
    /\ th[t].pending = {}
    /\ clearRegistry
    /\ mu' = Unlock(t)
    /\ hist' = [hist EXCEPT !.shut = TRUE]
    /\ Return(t, "Close", IF th[t].errs = {} THEN "nil" ELSE "error",
              [errs |-> th[t].errs, afterShut |-> th[t].afterShut])
    /\ UNCHANGED <<sess, smu, now>>

Close(t) ==
    \/ CloseBegin(t)
    \/ \E p \in Providers : CloseLock(t, p)
    \/ \E e \in BOOLEAN : CloseSession(t, e)
    \/ CloseEnd(t)

(***************************************************************************)
(* ToolExecutor.ExecuteWithTools (src/plugins/ai/tool_executor.go), run by *)
(* the goroutine Runner.                                                   *)
(*                                                                         *)
(* ChatMessage{Role, Content, ToolCalls, ToolCallID} and                   *)
(* ToolCall{ID, Function{Name, Arguments}}.                                *)
(***************************************************************************)
Runner == "c1"

Msg(role, content, calls, id) ==
    [role |-> role, content |-> content, toolCalls |-> calls, toolCallID |-> id]

Call(id, name, args) == [id |-> id, name |-> name, args |-> args]

\* []ChatMessage{{Role: "system", ...}, {Role: "user", ...}}   (plugin.go:564)
InitialMessages ==
    <<Msg("system", "prompt", <<>>, ""), Msg("user", "question", <<>>, "")>>

\* json.Unmarshal([]byte(call.Function.Arguments), &args) into a
\* map[string]interface{}: an object parses, and so does the literal null
\* (it leaves the map nil); anything else is an error.
unmarshalOK(args) == args \in {"{}", "null"}

\* The tool-call batches the model endpoint answers with; the argument
\* payloads are the object {}, the truncated text [ and the literal null.
ToolCallBatches ==
    { <<Call("x", "a", "{}")>>,
      <<Call("x", "zz", "{}"), Call("y", "a", "[")>>,
      <<Call("x", "a", "["), Call("y", "a", "null")>> }

\* What Generate returns: an error, or one assistant message.
Replies ==
    {[err |-> TRUE, msg |-> Msg("assistant", "", <<>>, "")]}
    \cup {[err |-> FALSE, msg |-> Msg("assistant", c, <<>>, "")] :
             c \in {"", "answer"}}
    \cup {[err |-> FALSE, msg |-> Msg("assistant", "", b, "")] :
             b \in ToolCallBatches}

\* The endpoint's answer to the next tool-enabled generation.
EndpointAnswers(reply) ==
    ex.gens < MaxAnswers \/ (~reply.err /\ reply.msg = ex.last)

\* the maxIterations and platformPrompt arguments tried
MaxIterationsInputs == {-1, 0, 1, 2, 3}
PlatformPrompts == {"", "markdown"}

\* AIPlugin.Init has connected the servers before it registers the handlers
\* that run the loop
RegistryStarted == th[Admin].pc = "idle" /\ ret[Admin].op # "none"

\* a default of one iteration more
defaultSix(maxIterations) == 6

\* if maxIterations <= 0 { maxIterations = 5 }
defaultFive(maxIterations) == 5

effectiveMax(maxIterations) ==
    IF maxIterations <= 0 THEN defaultFive(maxIterations) ELSE maxIterations

ExReturn(kind, content) ==
    [ex EXCEPT !.pc = "done", !.result = [kind |-> kind, content |-> content]]

\* if maxIterations <= 0 {...}; messages := copy(initialMessages);
\* tools := e.manager.GetTools()      -- GetTools takes the read lock
ExecuteBegin(maxIterations, platformPrompt) ==
    /\ ex.pc = "idle"
    /\ RegistryStarted
    /\ GetToolsBegin(Runner)
    /\ ex' = [ExIdle EXCEPT !.pc = "gettools",
                            !.arg = maxIterations,
                            !.maxIterations = effectiveMax(maxIterations),
                            !.platformPrompt = platformPrompt,
                            !.messages = InitialMessages]

\* ... GetTools returns m.tools and releases the read lock
ExecuteGotTools ==
    /\ ex.pc = "gettools"
    /\ GetToolsEnd(Runner)
    /\ ex' = [ex EXCEPT !.pc = "generate", !.tools = tools]

\* a loop test that lets one more iteration through
loopContinuesInclusive(i, maxIterations) == i <= maxIterations

\* the loop test of `for i := 0; i < maxIterations; i++`
loopContinues(i, maxIterations) == i < maxIterations

\* a formatting pass that runs whether or not a platform prompt is set
needsFormatAlways(platformPrompt, finalContent) == finalContent # ""

\* if platformPrompt != "" && finalContent != ""
needsFormat(platformPrompt, finalContent) ==
    platformPrompt # "" /\ finalContent # ""

\* a loop that goes on to the next iteration when a generation fails
ExecuteGenerateSkippingErrors(reply) ==
    /\ ex.pc = "generate"
    /\ loopContinues(ex.i, ex.maxIterations)
    /\ EndpointAnswers(reply)
    /\ IF reply.err
       THEN ex' = [ex EXCEPT !.gens = @ + 1, !.i = @ + 1]
       ELSE ex' = [ExReturn("ok", reply.msg.content) EXCEPT
                      !.messages = Append(@, reply.msg), !.gens = @ + 1,
                      !.finalContent = reply.msg.content]
    /\ UNCHANGED <<sessions, toolMap, tools, mu, sess, smu, now, th, ret, hist>>

\* a catalog read from the registry again for each generation
catalogReread == tools

\* the `tools` argument of Generate: the slice GetTools returned to this run
catalogOffered == ex.tools

\* respMsg, err := Generate(..., messages, tools)
\* if err != nil { return "", "generation error at iteration i" }
\* messages = append(messages, *respMsg)
\* if len(respMsg.ToolCalls) == 0 { finalContent := respMsg.Content; ... }
ExecuteGenerate(reply) ==
    /\ ex.pc = "generate"
    /\ loopContinues(ex.i, ex.maxIterations)
    /\ EndpointAnswers(reply)
    /\ IF reply.err
       THEN ex' = [ExReturn("GenerationError", "") EXCEPT
                      !.gens = @ + 1, !.offered = Append(@, catalogOffered)]
       ELSE LET msgs == Append(ex.messages, reply.msg)
                c == reply.msg.content
            IN  IF Len(reply.msg.toolCalls) = 0
                THEN IF needsFormat(ex.platformPrompt, c)
                     THEN ex' = [ex EXCEPT !.pc = "format", !.messages = msgs,
                                           !.gens = @ + 1, !.finalContent = c,
                                           !.offered = Append(@, catalogOffered)]
                     ELSE ex' = [ExReturn("ok", c) EXCEPT
                                    !.messages = msgs, !.gens = @ + 1,
                                    !.finalContent = c,
                                    !.offered = Append(@, catalogOffered)]
                ELSE ex' = [ex EXCEPT !.pc = "toolcalls", !.messages = msgs,
                                      !.last = reply.msg,
                                      !.gens = @ + 1, !.toolTurns = @ + 1,
                                      !.pending = reply.msg.toolCalls,
                                      !.offered = Append(@, catalogOffered)]
    /\ UNCHANGED <<sessions, toolMap, tools, mu, sess, smu, now, th, ret, hist>>

\* a formatting pass whose failure fails the run
ExecuteFormatFatal(reply) ==
    /\ ex.pc = "format"
    /\ Len(reply.msg.toolCalls) = 0
    /\ ex' = [ExReturn(IF reply.err THEN "GenerationError" ELSE "ok",
                       IF reply.err \/ reply.msg.content = "" THEN ""
                       ELSE "formatted")
                EXCEPT !.formats = @ + 1,
                       !.formatted = IF reply.err THEN "err" ELSE "ok"]
    /\ UNCHANGED <<sessions, toolMap, tools, mu, sess, smu, now, th, ret, hist>>

\* finalResp, err := Generate(..., finalMessages, nil)
\* if err != nil { return finalContent, nil }; return finalResp.Content, nil
ExecuteFormat(reply) ==
    /\ ex.pc = "format"
    /\ Len(reply.msg.toolCalls) = 0
    /\ ex' = [ExReturn(IF ex.summaries > 0 THEN "Fallback" ELSE "ok",
                       IF reply.err THEN ex.finalContent
                       ELSE IF reply.msg.content = "" THEN ""
                       ELSE "formatted")
                EXCEPT !.formats = @ + 1,
                       !.formatted = IF reply.err THEN "err" ELSE "ok"]
    /\ UNCHANGED <<sessions, toolMap, tools, mu, sess, smu, now, th, ret, hist>>

\* a tool message that leaves ToolCallID empty
ToolMsgWithoutId(call, content) == Msg("tool", content, <<>>, "")

\* a tool message that carries the tool's name where the call's id belongs
ToolMsgWithName(call, content) == Msg("tool", content, <<>>, call.name)

\* ChatMessage{Role: "tool", ToolCallID: call.ID, Content: ...}
ToolMsg(call, content) == Msg("tool", content, <<>>, call.id)

\* unparsable arguments skipped without a tool message
ExecuteBadArgumentsSilently ==
    /\ ex.pc = "toolcalls"
    /\ ex.pending # <<>>
    /\ ~unmarshalOK(Head(ex.pending).args)
    /\ ex' = [ex EXCEPT !.pending = Tail(@)]
    /\ UNCHANGED <<sessions, toolMap, tools, mu, sess, smu, now, th, ret, hist>>

\* executeToolCalls: `for _, call := range toolCalls`, arguments do not parse:
\* append {Role: "tool", ToolCallID: call.ID, Content: "Error parsing arguments: ..."}; continue
ExecuteBadArguments ==
    /\ ex.pc = "toolcalls"
    /\ ex.pending # <<>>
    /\ ~unmarshalOK(Head(ex.pending).args)
    /\ ex' = [ex EXCEPT
                !.messages = Append(@, ToolMsg(Head(ex.pending),
                                               "Error parsing arguments")),
                !.pending = Tail(@)]
    /\ UNCHANGED <<sessions, toolMap, tools, mu, sess, smu, now, th, ret, hist>>

\* contentStr, err := e.manager.CallTool(ctx, call.Function.Name, args)
ExecuteCallTool ==
    /\ ex.pc = "toolcalls"
    /\ ex.pending # <<>>
    /\ unmarshalOK(Head(ex.pending).args)
    /\ CallToolBegin(Runner, Head(ex.pending).name)
    /\ ex' = [ex EXCEPT !.pc = "calling"]

\* if err != nil { contentStr = fmt.Sprintf("Error executing tool: %v", err) }
toolContent(r) ==
    IF r.kind = "ok" THEN "result"
    ELSE "Error executing tool: " \o r.kind

\* a loop that returns the tool's error to the caller
ExecuteToolReturnedAborting ==
    /\ ex.pc = "calling"
    /\ th[Runner].pc = "idle"
    /\ IF ret[Runner].kind # "ok"
       THEN ex' = ExReturn("ToolError", "")
       ELSE ex' = [ex EXCEPT
                      !.pc = "toolcalls",
                      !.messages = Append(@, ToolMsg(Head(ex.pending), "result")),
                      !.pending = Tail(@)]
    /\ UNCHANGED <<sessions, toolMap, tools, mu, sess, smu, now, th, ret, hist>>

\* ... CallTool has returned: append {Role: "tool", ToolCallID: call.ID, Content: contentStr}
ExecuteToolReturned ==
    /\ ex.pc = "calling"
    /\ th[Runner].pc = "idle"
    /\ ex' = [ex EXCEPT
                !.pc = "toolcalls",
                !.messages = Append(@, ToolMsg(Head(ex.pending),
                                               toolContent(ret[Runner]))),
                !.pending = Tail(@)]
    /\ UNCHANGED <<sessions, toolMap, tools, mu, sess, smu, now, th, ret, hist>>

\* a loop that returns once the tool messages of a turn are appended
ExecuteNextIterationReturning ==
    /\ ex.pc = "toolcalls"
    /\ ex.pending = <<>>
    /\ ex' = ExReturn("ok", "")
    /\ UNCHANGED <<sessions, toolMap, tools, mu, sess, smu, now, th, ret, hist>>

\* executeToolCalls returns nil; i++
ExecuteNextIteration ==
    /\ ex.pc = "toolcalls"
    /\ ex.pending = <<>>
    /\ ex' = [ex EXCEPT !.pc = "generate", !.i = @ + 1]
    /\ UNCHANGED <<sessions, toolMap, tools, mu, sess, smu, now, th, ret, hist>>

\* after the loop (tool_executor.go):
\* return "", "exceeded maximum iterations (%d) without final response"
ExecuteExceeded ==
    /\ ex.pc = "generate"
    /\ ~loopContinues(ex.i, ex.maxIterations)
    /\ ex' = ExReturn("IterationsExceeded", "")
    /\ UNCHANGED <<sessions, toolMap, tools, mu, sess, smu, now, th, ret, hist>>

\* after the loop, in the other revision of the file (unnamed/part_004):
\* messages = append(messages, {Role: "user", Content: "...give your final reply"})
ExecuteForceFinal ==
    /\ ex.pc = "generate"
    /\ ~loopContinues(ex.i, ex.maxIterations)
    /\ ex' = [ex EXCEPT !.pc = "summarize",
                        !.messages = Append(@, Msg("user", "summarize", <<>>, ""))]
    /\ UNCHANGED <<sessions, toolMap, tools, mu, sess, smu, now, th, ret, hist>>

\* finalResp, err := Generate(..., messages, nil)
\* if err != nil { return "", "failed to generate final response after max iterations" }
\* finalContent := finalResp.Content; then the platform prompt as above
ExecuteSummarize(reply) ==
    /\ ex.pc = "summarize"
    /\ Len(reply.msg.toolCalls) = 0
    /\ IF reply.err
       THEN ex' = [ExReturn("GenerationError", "") EXCEPT !.summaries = @ + 1]
       ELSE IF needsFormat(ex.platformPrompt, reply.msg.content)
       THEN ex' = [ex EXCEPT !.pc = "format", !.summaries = @ + 1,
                             !.finalContent = reply.msg.content]
       ELSE ex' = [ExReturn("Fallback", reply.msg.content) EXCEPT
                      !.summaries = @ + 1,
                      !.finalContent = reply.msg.content]
    /\ UNCHANGED <<sessions, toolMap, tools, mu, sess, smu, now, th, ret, hist>>

\* the steps of a run that has begun
ExecuteSteps ==
    \/ ExecuteGotTools
    \/ \E r \in Replies : ExecuteGenerate(r)
    \/ \E r \in Replies : ExecuteFormat(r)
    \/ ExecuteBadArguments
    \/ ExecuteCallTool
    \/ ExecuteToolReturned
    \/ ExecuteNextIteration
    \/ ExecuteExceeded
    \/ ExecuteForceFinal
    \/ \E r \in Replies : ExecuteSummarize(r)

ExecuteWithTools ==
    \/ \E n \in MaxIterationsInputs : \E pp \in PlatformPrompts :
          ExecuteBegin(n, pp)
    \/ ExecuteSteps

(***************************************************************************)
(* AIPlugin.startScheduler and AIPlugin.executePush                        *)
(* Instants are whole seconds; instant 0 is local midnight of day 0.  A    *)
(* reading of time.Now() between two seconds is its next second: Before    *)
(* compares it with whole seconds only.                                    *)
(***************************************************************************)
\* the fires of one behaviour
MaxFires == 2

\* 24 * time.Hour, in seconds
Day == 24 * 3600

\* time.Sleep(60 * time.Second), in seconds
GuardDelay == 60

At(h, m, sec) == h * 3600 + m * 60 + sec

\* the locations time.Local may be: one without clock changes, and two whose
\* clocks change in the night to day 1, at 02:00 local time, one hour back
\* (to 01:00) or one hour forward (to 03:00)
Zones == {"fixed", "back", "forward"}
ZoneChange(z) == IF z = "fixed" THEN 0 ELSE Day + At(2, 0, 0)
ZoneShift(z) == CASE z = "fixed" -> 0
                  [] z = "back" -> 0 - 3600
                  [] z = "forward" -> 3600

\* the wall clock of location z at instant t, in seconds since local midnight
\* of day 0
Wall(z, t) == IF t >= ZoneChange(z) THEN t + ZoneShift(z) ELSE t

\* now.Year(), now.Month(), now.Day(): the local date of an instant
LocalDay(z, t) == Wall(z, t) \div Day

\* time.Date(year, month, day, hour, min, 0, 0, loc): the instant at which the
\* wall clock of z shows hour:min on that date; a wall-clock time that the
\* location shows twice or never gives one of the two instants the offsets
\* before and after the change yield
Date(z, day, hour, min) ==
    LET w == day * Day + At(hour, min, 0)
        both == {w, w - ZoneShift(z)}
        exact == {t \in both : Wall(z, t) = w}
    IN  IF exact = {} \/ Cardinality(exact) = 2 THEN both ELSE exact

\* the value of a decimal digit, -1 for any other character
DigitOf(c) ==
    CASE c = "0" -> 0 [] c = "1" -> 1 [] c = "2" -> 2 [] c = "3" -> 3
      [] c = "4" -> 4 [] c = "5" -> 5 [] c = "6" -> 6 [] c = "7" -> 7
      [] c = "8" -> 8 [] c = "9" -> 9 [] OTHER -> 0 - 1

isDigit(str, i) == i <= Len(str) /\ DigitOf(str[i]) >= 0

ParseError == [err |-> TRUE, n |-> 0, rest |-> <<>>]

\* time.getnum: one or two leading digits, exactly two when fixed
getnum(str, fixed) ==
    IF ~isDigit(str, 1) THEN ParseError
    ELSE IF ~isDigit(str, 2)
    THEN IF fixed THEN ParseError
         ELSE [err |-> FALSE, n |-> DigitOf(str[1]), rest |-> Tail(str)]
    ELSE [err |-> FALSE, n |-> DigitOf(str[1]) * 10 + DigitOf(str[2]),
          rest |-> SubSeq(str, 3, Len(str))]

\* time.Parse("15:04", value), value given as its sequence of characters:
\* an hour of one or two digits below 24, a colon, a minute of two digits
\* below 60, and nothing after it
Parse(value) ==
    LET h == getnum(value, FALSE)
        m == getnum(Tail(h.rest), TRUE)
        bad == [err |-> TRUE, hour |-> 0, minute |-> 0]
    IN  IF h.err \/ h.n >= 24 THEN bad
        ELSE IF h.rest = <<>> \/ Head(h.rest) # ":" THEN bad
        ELSE IF m.err \/ m.n >= 60 \/ m.rest # <<>> THEN bad
        ELSE [err |-> FALSE, hour |-> h.n, minute |-> m.n]

\* values of ctx.Config.Push.Time: 00:00, 08:00, 8:00, 23:59 and the
\* malformed 24:00, 08:60, 0800, 8:5 and the empty string
PushTimes ==
    { <<"0", "0", ":", "0", "0">>, <<"0", "8", ":", "0", "0">>,
      <<"8", ":", "0", "0">>, <<"2", "3", ":", "5", "9">>,
      <<"2", "4", ":", "0", "0">>, <<"0", "8", ":", "6", "0">>,
      <<"0", "8", "0", "0">>, <<"8", ":", "5">>, <<>> }

\* the instants at which the goroutine may start: instants of day 0, and one
\* of the night after the clocks have changed, 48 hours and a half after
\* midnight of day 0 (23:30 of day 1 where the clocks went back)
StartTimes ==
    { At(0, 0, 0), At(0, 0, 1), At(7, 59, 59), At(8, 0, 0), At(8, 0, 1),
      At(8, 0, 59), At(10, 0, 0), At(23, 58, 59), At(23, 59, 0),
      At(23, 59, 1), At(23, 59, 59), 2 * Day + At(0, 30, 0) }

\* by how many seconds time.Sleep may overrun, and how long executePush may take
Oversleeps == {0, 1}
PushDurations == {0, 1, 120}

\* next := time.Date(...today at hour:min...);
\* if next.Before(now) { next = next.Add(24 * time.Hour) }
nextRun(today, t) == IF today < t THEN today + Day ELSE today

\* go p.startScheduler(ctx), when cfg.Push.Enabled
StartedScheduler(time, zone, t) ==
    [SchedulerOff EXCEPT !.pc = "loop", !.time = time, !.zone = zone, !.now = t]

\* a scheduler that takes midnight when the configured time does not parse
SchedulerComputeDefaulting ==
    /\ sch.pc = "loop"
    /\ Len(sch.fired) < MaxFires
    /\ LET parsed == Parse(sch.time) IN
       \E today \in Date(sch.zone, LocalDay(sch.zone, sch.now),
                          parsed.hour, parsed.minute) :
          sch' = [sch EXCEPT !.pc = "sleeping",
                             !.next = nextRun(today, sch.now)]
    /\ UNCHANGED <<sessions, toolMap, tools, mu, sess, smu, now, th, ret, hist, ex,
                   tr, store>>

\* for { now := time.Now(); parsed, err := time.Parse(layout, targetTime)
\*       if err != nil { log; return }
\*       next := ...; duration := next.Sub(now)
SchedulerCompute ==
    /\ sch.pc = "loop"
    /\ Len(sch.fired) < MaxFires
    /\ LET parsed == Parse(sch.time) IN
       IF parsed.err
       THEN sch' = [sch EXCEPT !.pc = "exited"]
       ELSE \E today \in Date(sch.zone, LocalDay(sch.zone, sch.now),
                               parsed.hour, parsed.minute) :
               sch' = [sch EXCEPT !.pc = "sleeping",
                                  !.next = nextRun(today, sch.now)]
    /\ UNCHANGED <<sessions, toolMap, tools, mu, sess, smu, now, th, ret, hist, ex,
                   tr, store>>

\* time.Sleep(duration): returns when at least duration has passed, and at
\* once when duration is negative or zero
SchedulerWake(over) ==
    /\ sch.pc = "sleeping"
    /\ sch' = [sch EXCEPT !.pc = "push",
                          !.now = (IF sch.next > sch.now THEN sch.next ELSE sch.now)
                                  + over]
    /\ UNCHANGED <<sessions, toolMap, tools, mu, sess, smu, now, th, ret, hist, ex,
                   tr, store>>

\* time.Sleep(60 * time.Second) }
SchedulerGuard(over) ==
    /\ sch.pc = "guard"
    /\ sch' = [sch EXCEPT !.pc = "loop", !.now = @ + GuardDelay + over]
    /\ UNCHANGED <<sessions, toolMap, tools, mu, sess, smu, now, th, ret, hist, ex,
                   tr, store>>

\* the maxIterations the handlers and executePush pass
HandlerIterations == 5

\* values of ctx.Config.Push.Targets
PushTargets == { <<>>, <<"Telegram:1">>, <<"Telegram:1", "QQ:Group:2">> }

\* ExecuteWithTools returned no error
Succeeded(result) == result.kind \in {"ok", "Fallback"}

\* executePush: content, err := p.toolExecutor.ExecuteWithTools(executeCtx, aiCfg, messages, 5, "")
executePushBegin ==
    /\ sch.pc = "push"
    /\ ExecuteBegin(HandlerIterations, "")
    /\ sch' = [sch EXCEPT !.pc = "running"]
    /\ UNCHANGED <<tr, store>>

\* if err != nil { log; return }; if content == "" { log; return }
executePushResult ==
    /\ sch.pc = "running"
    /\ ex.pc = "done"
    /\ IF Succeeded(ex.result) /\ ex.result.content # ""
       THEN sch' = [sch EXCEPT !.pc = "sending",
                               !.content = ex.result.content,
                               !.queue = sch.targets]
       ELSE sch' = [sch EXCEPT !.pc = "returned"]
    /\ UNCHANGED <<sessions, toolMap, tools, mu, sess, smu, now, th, ret, hist, ex,
                   tr, store>>

\* a loop over the targets that stops at the first failed delivery
executePushSendOrStop(failed) ==
    /\ sch.pc = "sending"
    /\ sch.queue # <<>>
    /\ failed => sch.sendTo
    /\ sch' = [sch EXCEPT
                 !.sent = IF sch.sendTo
                          THEN Append(@, [target |-> Head(sch.queue),
                                          text |-> sch.content, failed |-> failed])
                          ELSE @,
                 !.queue = IF failed THEN <<>> ELSE Tail(@)]
    /\ UNCHANGED <<sessions, toolMap, tools, mu, sess, smu, now, th, ret, hist, ex,
                   tr, store>>

\* for _, target := range ctx.Config.Push.Targets {
\*     if ctx.SendTo != nil {
\*         if err := ctx.SendTo(target, content); err != nil { log } } }
\* sch.sent lists the calls of SendTo
executePushSend(failed) ==
    /\ sch.pc = "sending"
    /\ sch.queue # <<>>
    /\ failed => sch.sendTo
    /\ sch' = [sch EXCEPT
                 !.sent = IF sch.sendTo
                          THEN Append(@, [target |-> Head(sch.queue),
                                          text |-> sch.content, failed |-> failed])
                          ELSE @,
                 !.queue = Tail(@)]
    /\ UNCHANGED <<sessions, toolMap, tools, mu, sess, smu, now, th, ret, hist, ex,
                   tr, store>>

\* the loop over the targets is over: executePush returns
executePushEnd ==
    /\ sch.pc = "sending"
    /\ sch.queue = <<>>
    /\ sch' = [sch EXCEPT !.pc = "returned"]
    /\ UNCHANGED <<sessions, toolMap, tools, mu, sess, smu, now, th, ret, hist, ex,
                   tr, store>>

executePush ==
    \/ executePushBegin
    \/ executePushResult
    \/ \E failed \in BOOLEAN : executePushSend(failed)
    \/ executePushEnd

\* p.executePush(ctx): the scheduler's goroutine runs executePush, which
\* returns after some time; sch.fired lists the calls, with the instant each
\* was due and the instant it was made
SchedulerPush(took) ==
    \/ executePush
    \/ /\ sch.pc = "returned"
       /\ sch' = [sch EXCEPT !.pc = "guard",
                             !.now = @ + took,
                             !.fired = Append(@, [due |-> sch.next, at |-> sch.now]),
                             !.content = "", !.queue = <<>>, !.sent = <<>>]
       /\ ex' = ExIdle
       /\ UNCHANGED <<sessions, toolMap, tools, mu, sess, smu, now, th, ret, hist,
                      tr, store>>

startScheduler ==
    \/ SchedulerCompute
    \/ \E over \in Oversleeps : SchedulerWake(over)
    \/ \E took \in PushDurations : SchedulerPush(took)
    \/ \E over \in Oversleeps : SchedulerGuard(over)

(***************************************************************************)
(* The transcript in memory.  A Go slice is a header {array, len, cap}     *)
(* over an array; append writes into the array while len < cap and moves   *)
(* to a new, larger array otherwise.  Two runs of ExecuteWithTools are     *)
(* given the same initialMessages; only what touches the transcript is     *)
(* kept of each run: the copy, the model turns and the tool turns.         *)
(***************************************************************************)
\* the iterations of a run in this view
TranscriptIterations == 2

Runs == {"r1", "r2"}

\* an unused element of an array
NoMsg == [by |-> "none", role |-> "none", n |-> 0]

\* the elements a slice shows
View(heap, sl) == SubSeq(heap[sl.arr], 1, sl.len)

\* messages := initialMessages: the run works on the caller's array
aliasMessages(heap, src) == [heap |-> heap, sl |-> src]

\* messages := make([]ChatMessage, len(initialMessages)); copy(messages, initialMessages)
copyMessages(heap, src) ==
    [heap |-> Append(heap, View(heap, src)),
     sl |-> [arr |-> Len(heap) + 1, len |-> src.len, cap |-> src.len]]

\* append(messages, msg)
appendMessage(heap, sl, msg) ==
    IF sl.len < sl.cap
    THEN [heap |-> [heap EXCEPT ![sl.arr][sl.len + 1] = msg],
          sl |-> [sl EXCEPT !.len = @ + 1]]
    ELSE LET newcap == IF sl.cap = 0 THEN 1 ELSE 2 * sl.cap
         IN  [heap |-> Append(heap, View(heap, sl) \o <<msg>>
                                \o [k \in 1..(newcap - sl.len - 1) |-> NoMsg]),
              sl |-> [arr |-> Len(heap) + 1, len |-> sl.len + 1, cap |-> newcap]]

NoRun == [pc |-> "idle", messages |-> [arr |-> 0, len |-> 0, cap |-> 0],
          i |-> 0, pending |-> 0, n |-> 0]

\* the caller's slice: a system and a user message, in an array of cap elements
CallerTranscript(cap) ==
    [heap |-> << <<[by |-> "caller", role |-> "system", n |-> 1],
                   [by |-> "caller", role |-> "user", n |-> 2]>>
                 \o [k \in 1..(cap - 2) |-> NoMsg] >>,
     caller |-> [arr |-> 1, len |-> 2, cap |-> cap],
     runs |-> [r \in Runs |-> NoRun]]

\* the run appends one message
RunAppends(r, role) ==
    LET a == appendMessage(tr.heap, tr.runs[r].messages,
                           [by |-> r, role |-> role, n |-> tr.runs[r].n + 1])
    IN  [tr EXCEPT !.heap = a.heap,
                   !.runs[r].messages = a.sl,
                   !.runs[r].n = @ + 1]

\* ExecuteWithTools is entered: the transcript is copied
RunBegin(r) ==
    /\ tr.runs # <<>>
    /\ tr.runs[r].pc = "idle"
    /\ LET c == copyMessages(tr.heap, tr.caller)
       IN  tr' = [tr EXCEPT !.heap = c.heap,
                            !.runs[r].messages = c.sl,
                            !.runs[r].pc = "generate"]
    /\ UNCHANGED <<sessions, toolMap, tools, mu, sess, smu, now, th, ret, hist, ex,
                   sch, store>>

\* respMsg, err := Generate(...); if err != nil { return }
\* messages = append(messages, *respMsg); calls tool calls in the reply
RunGenerate(r, failed, calls) ==
    /\ tr.runs # <<>>
    /\ tr.runs[r].pc = "generate"
    /\ tr.runs[r].i < TranscriptIterations
    /\ IF failed
       THEN tr' = [tr EXCEPT !.runs[r].pc = "done"]
       ELSE tr' = [RunAppends(r, "assistant") EXCEPT
                      !.runs[r].pc = IF calls = 0 THEN "done" ELSE "tools",
                      !.runs[r].pending = calls]
    /\ UNCHANGED <<sessions, toolMap, tools, mu, sess, smu, now, th, ret, hist, ex,
                   sch, store>>

\* executeToolCalls: *messages = append(*messages, ChatMessage{Role: "tool", ...})
RunToolMessage(r) ==
    /\ tr.runs # <<>>
    /\ tr.runs[r].pc = "tools"
    /\ tr.runs[r].pending > 0
    /\ tr' = [RunAppends(r, "tool") EXCEPT !.runs[r].pending = @ - 1]
    /\ UNCHANGED <<sessions, toolMap, tools, mu, sess, smu, now, th, ret, hist, ex,
                   sch, store>>

\* executeToolCalls returns; i++; after the last iteration the run returns
RunNextIteration(r) ==
    /\ tr.runs # <<>>
    /\ tr.runs[r].pc = "tools"
    /\ tr.runs[r].pending = 0
    /\ tr' = [tr EXCEPT !.runs[r].i = @ + 1,
                        !.runs[r].pc = IF tr.runs[r].i + 1 < TranscriptIterations
                                       THEN "generate" ELSE "done"]
    /\ UNCHANGED <<sessions, toolMap, tools, mu, sess, smu, now, th, ret, hist, ex,
                   sch, store>>

RunTranscript(r) ==
    \/ RunBegin(r)
    \/ \E failed \in BOOLEAN : \E calls \in 0..2 : RunGenerate(r, failed, calls)
    \/ RunToolMessage(r)
    \/ RunNextIteration(r)

(***************************************************************************)
(* The registry's lifecycle: the host goroutine connects any non-empty set *)
(* of providers (repeatedly, while sessions can be allocated), lists the   *)
(* catalog, checks health and shuts down.                                  *)
(***************************************************************************)
AnyConfigs == (SUBSET Providers) \ {{}}

NextConn ==
    \/ ConnectServers(Admin, AnyConfigs) /\ UNCHANGED <<ex, sch, tr, store>>
    \/ GetTools(Admin) /\ UNCHANGED <<ex, sch, tr, store>>
    \/ HealthCheck(Admin) /\ UNCHANGED <<ex, sch, tr, store>>
    \/ Close(Admin) /\ UNCHANGED <<ex, sch, tr, store>>

SpecConn == Init /\ [][NextConn]_vars

(***************************************************************************)
(* The registry under concurrent use, as the plugin drives it: the host    *)
(* goroutine connects the configured servers at start-up (AIPlugin.Init),  *)
(* then checks health and finally shuts down, while a message handler's    *)
(* goroutine invokes tools.                                                *)
(***************************************************************************)
\* cfg.MCPServers of this scenario
StaticConfig == {"p1", "p2"}

\* p.mcpManager.ConnectServers(connectCtx, cfg.MCPServers): the first thing
\* Init does with the manager, and done once
ConnectAtStartup(t, cfgs) ==
    \/ ret[t].op = "none" /\ ConnectServersBegin(t, cfgs)
    \/ \E p \in Providers : \E o \in ConnectOutcomes(p) : connectServer(t, p, o)
    \/ ConnectServersEnd(t)

\* the same call made while a handler reads the registry
ConnectBehindReaders(t, cfgs) ==
    \/ ret[t].op = "none" /\ ConnectServersBlocked(t, cfgs)
    \/ ConnectServersUnblocked(t)

\* Close called while a handler reads the registry
CloseBehindReaders(t) == CloseBlocked(t) \/ CloseUnblocked(t)

Next ==
    \/ CallTool("c1") /\ UNCHANGED <<ex, sch, tr, store>>
    \/ ConnectAtStartup(Admin, StaticConfig) /\ UNCHANGED <<ex, sch, tr, store>>
    \/ HealthCheck(Admin) /\ UNCHANGED <<ex, sch, tr, store>>
    \/ Close(Admin) /\ UNCHANGED <<ex, sch, tr, store>>
    \/ ConnectBehindReaders(Admin, StaticConfig) /\ UNCHANGED <<ex, sch, tr, store>>
    \/ CloseBehindReaders(Admin) /\ UNCHANGED <<ex, sch, tr, store>>

Spec == Init /\ [][Next]_vars

(***************************************************************************)
(* Two message handlers read the registry, one listing the tools and one   *)
(* invoking a tool, while the host goroutine connects the configured       *)
(* servers and later shuts the registry down.                              *)
(***************************************************************************)
NextReaders ==
    \/ CallTool("c1") /\ UNCHANGED <<ex, sch, tr, store>>
    \/ GetTools("c2") /\ UNCHANGED <<ex, sch, tr, store>>
    \/ ConnectAtStartup(Admin, StaticConfig) /\ UNCHANGED <<ex, sch, tr, store>>
    \/ Close(Admin) /\ UNCHANGED <<ex, sch, tr, store>>
    \/ ConnectBehindReaders(Admin, StaticConfig) /\ UNCHANGED <<ex, sch, tr, store>>
    \/ CloseBehindReaders(Admin) /\ UNCHANGED <<ex, sch, tr, store>>

SpecReaders == Init /\ [][NextReaders]_vars

(***************************************************************************)
(* Two message handlers invoke one tool each of the two connected servers  *)
(* at the same time; the host goroutine connects the servers and later     *)
(* shuts the registry down.                                                *)
(***************************************************************************)
\* the tools the two handlers ask for: "a" is served by p1, "b" by p2
InvokedTools == {"a", "b"}

NextInvokers ==
    \/ \E t \in Callers :
          /\ \/ ret[t].op = "none" /\ \E name \in InvokedTools : CallToolBegin(t, name)
             \/ CallToolSteps(t)
          /\ UNCHANGED <<ex, sch, tr, store>>
    \/ ConnectAtStartup(Admin, StaticConfig) /\ UNCHANGED <<ex, sch, tr, store>>
    \/ Close(Admin) /\ UNCHANGED <<ex, sch, tr, store>>
    \/ ConnectBehindReaders(Admin, StaticConfig) /\ UNCHANGED <<ex, sch, tr, store>>
    \/ CloseBehindReaders(Admin) /\ UNCHANGED <<ex, sch, tr, store>>

SpecInvokers == Init /\ [][NextInvokers]_vars

(***************************************************************************)
(* One conversation loop: a message handler runs ExecuteWithTools against  *)
(* the registry that the host goroutine has connected at start-up.         *)
(***************************************************************************)
\* cfg.MCPServers of this scenario
LoopConfig == {"p1"}

NextLoop ==
    \/ ExecuteWithTools /\ UNCHANGED <<sch, tr, store>>
    \/ CallToolSteps(Runner) /\ UNCHANGED <<ex, sch, tr, store>>
    \/ ConnectAtStartup(Admin, LoopConfig) /\ UNCHANGED <<ex, sch, tr, store>>

SpecLoop == Init /\ [][NextLoop]_vars

\* every call returns: the goroutines keep being scheduled
FairLoop == SpecLoop /\ WF_vars(NextLoop)

(***************************************************************************)
(* One conversation loop during shutdown: the handler's run, as the        *)
(* handlers start it (a bounded number of iterations, a platform prompt),  *)
(* races with AIPlugin.Cleanup closing the registry.                       *)
(***************************************************************************)
\* the iterations the handler asks for in this scenario
ShutdownIterations == 3

NextLoopShutdown ==
    \/ ExecuteBegin(ShutdownIterations, "markdown") /\ UNCHANGED <<sch, tr, store>>
    \/ ExecuteSteps /\ UNCHANGED <<sch, tr, store>>
    \/ CallToolSteps(Runner) /\ UNCHANGED <<ex, sch, tr, store>>
    \/ ConnectAtStartup(Admin, LoopConfig) /\ UNCHANGED <<ex, sch, tr, store>>
    \/ Close(Admin) /\ UNCHANGED <<ex, sch, tr, store>>
    \/ CloseBehindReaders(Admin) /\ UNCHANGED <<ex, sch, tr, store>>

SpecLoopShutdown == Init /\ [][NextLoopShutdown]_vars

(***************************************************************************)
(* One conversation loop while the registry changes under it: during the   *)
(* handler's run the registry is closed, and ConnectServers is called      *)
(* again with the configuration of another server.                         *)
(***************************************************************************)
\* a call of ConnectServers made while a run of ExecuteWithTools is under
\* way, the first one since start-up; it waits for the readers of the
\* registry to leave
ConnectDuringRun(t, cfgs) ==
    \/ /\ ex.pc \notin {"idle", "done"}
       /\ Len(sess) <= Cardinality(LoopConfig)
       /\ ConnectServersBegin(t, cfgs)
    \/ /\ ex.pc \notin {"idle", "done"}
       /\ Len(sess) <= Cardinality(LoopConfig)
       /\ ConnectServersBlocked(t, cfgs)
    \/ ConnectServersUnblocked(t)

\* the iterations the handler asks for in this scenario
RegistryIterations == 2

NextLoopRegistry ==
    \/ ExecuteBegin(RegistryIterations, "markdown") /\ UNCHANGED <<sch, tr, store>>
    \/ ExecuteSteps /\ UNCHANGED <<sch, tr, store>>
    \/ CallToolSteps(Runner) /\ UNCHANGED <<ex, sch, tr, store>>
    \/ ConnectAtStartup(Admin, LoopConfig) /\ UNCHANGED <<ex, sch, tr, store>>
    \/ ConnectDuringRun(Admin, {"p2"}) /\ UNCHANGED <<ex, sch, tr, store>>
    \/ Close(Admin) /\ UNCHANGED <<ex, sch, tr, store>>
    \/ CloseBehindReaders(Admin) /\ UNCHANGED <<ex, sch, tr, store>>

SpecLoopRegistry == Init /\ [][NextLoopRegistry]_vars

(***************************************************************************)
(* One conversation loop under its deadline: the text handler runs         *)
(* ExecuteWithTools with a context that expires after 120 seconds.         *)
(***************************************************************************)
\* executeCtx, cancel := context.WithTimeout(context.Background(), 120*time.Second):
\* the timer of the context fires while the run is in progress
DeadlineExpires ==
    /\ ex.pc \notin {"idle", "done"}
    /\ ~ex.expired
    /\ ex' = [ex EXCEPT !.expired = TRUE]
    /\ UNCHANGED <<sessions, toolMap, tools, mu, sess, smu, now, th, ret, hist>>

NextDeadline ==
    \/ (\E pp \in PlatformPrompts : ExecuteBegin(HandlerIterations, pp)) /\ UNCHANGED <<sch, tr, store>>
    \/ ExecuteSteps /\ UNCHANGED <<sch, tr, store>>
    \/ DeadlineExpires /\ UNCHANGED <<sch, tr, store>>
    \/ CallToolSteps(Runner) /\ UNCHANGED <<ex, sch, tr, store>>
    \/ ConnectAtStartup(Admin, LoopConfig) /\ UNCHANGED <<ex, sch, tr, store>>

SpecDeadline == Init /\ [][NextDeadline]_vars

(***************************************************************************)
(* The broadcast scheduler: started at some instant of day 0 with some      *)
(* configured time, in some location, with one target and no MCP server    *)
(* configured; the endpoint answers the scheduled prompt without asking    *)
(* for a tool, or fails.                                                   *)
(***************************************************************************)
InitScheduler ==
    /\ InitManager
    /\ \E time \in PushTimes : \E zone \in Zones : \E t \in StartTimes :
          sch = [StartedScheduler(time, zone, t) EXCEPT !.targets = <<"Telegram:1">>]
    /\ tr = NoRuns
    /\ store = NoStore

\* if len(cfg.MCPServers) > 0 {...}: with no server configured Init goes on
\* without calling ConnectServers
InitWithoutServers(t) ==
    /\ th[t].pc = "idle"
    /\ ret[t].op = "none"
    /\ ret' = [ret EXCEPT ![t] = [op |-> "Init", kind |-> "nil", val |-> <<>>]]
    /\ UNCHANGED <<sessions, toolMap, tools, mu, sess, smu, now, th, hist, ex,
                   sch, tr, store>>

NextScheduler ==
    \/ startScheduler
    \/ ExecuteGotTools /\ UNCHANGED <<sch, tr, store>>
    \/ (\E reply \in Replies :
           reply.msg.toolCalls = <<>> /\ ExecuteGenerate(reply))
          /\ UNCHANGED <<sch, tr, store>>
    \/ InitWithoutServers(Admin)

SpecScheduler == InitScheduler /\ [][NextScheduler]_vars

(***************************************************************************)
(* One scheduled push: the scheduler has woken up and runs executePush     *)
(* against the registry that the host goroutine connects at start-up.      *)
(* The host builds the plugins' Context with SendTo set.                   *)
(***************************************************************************)
InitPush ==
    /\ InitManager
    /\ \E targets \in PushTargets :
          sch = [SchedulerOff EXCEPT !.pc = "push", !.targets = targets]
    /\ tr = NoRuns
    /\ store = NoStore

NextPush ==
    \/ \E took \in PushDurations : SchedulerPush(took)
    \/ ExecuteSteps /\ UNCHANGED <<sch, tr, store>>
    \/ CallToolSteps(Runner) /\ UNCHANGED <<ex, sch, tr, store>>
    \/ ConnectAtStartup(Admin, LoopConfig) /\ UNCHANGED <<ex, sch, tr, store>>

SpecPush == InitPush /\ [][NextPush]_vars

(***************************************************************************)
(* storage.Storage: UserData behind an RWMutex, persisted as JSON by Save. *)
(* store.UserData maps a user to "absent" (no entry), "nil" (an entry      *)
(* whose OverrideAI is nil) or the override; store.file is the content of  *)
(* the file at s.path: whether it exists and its bytes, which are none or  *)
(* one JSON document; store.applied lists the mutations in the order they  *)
(* were made.                                                              *)
(***************************************************************************)
Users == <<"u1", "u2">>
Overrides == {"A", "B"}
Mutators == {"w1", "w2"}
Reader == "rd"

\* json.MarshalIndent(s): the entries of the map in the order of their keys,
\* override_ai left out (omitempty) when OverrideAI is nil
MarshalIndent(data) ==
    LET present == SelectSeq(Users, LAMBDA u : data[u] # "absent")
    IN  << [user_data |->
              [k \in 1..Len(present) |->
                  [user |-> present[k],
                   override_ai |-> IF data[present[k]] = "nil" THEN "omitted"
                                   ELSE data[present[k]]]]] >>

\* New(path): no file or an empty file give an empty map, otherwise
\* json.Unmarshal(data, s)
Unmarshal(file) ==
    IF ~file.exists \/ file.data = <<>> THEN [u \in {"u1", "u2"} |-> "absent"]
    ELSE LET entries == file.data[1].user_data
         IN  [u \in {"u1", "u2"} |->
                IF \E k \in 1..Len(entries) : entries[k].user = u
                THEN LET e == CHOOSE k \in 1..Len(entries) : entries[k].user = u
                     IN  IF entries[e].override_ai = "omitted" THEN "nil"
                         ELSE entries[e].override_ai
                ELSE "absent"]

\* a goroutine outside every call
Resting == [pc |-> "idle", op |-> "none", user |-> "none", cfg |-> "none",
            data |-> <<>>, err |-> FALSE, seen |-> 0]

\* the storage New(path) returns for a file with this content
LoadedStore(file) ==
    [mu |-> [writer |-> NoThread, readers |-> {}, waiting |-> NoThread],
     UserData |-> Unmarshal(file),
     file |-> file,
     g |-> [w \in Mutators \cup {Reader} |-> Resting],
     applied |-> <<>>,
     loaded |-> Unmarshal(file)]

\* s.mu.Lock() of UpdateUserAIConfig(userID, cfg), ClearUserAIConfig(userID)
\* and SetUserAIConfig(userID, cfg), nobody holding the lock
MutateLock(w, op, user, cfg) ==
    /\ store.g # <<>>
    /\ store.g[w].pc = "idle"
    /\ store.g[w].op = "none"
    /\ store.mu.writer = NoThread /\ store.mu.waiting = NoThread
    /\ store.mu.readers = {}
    /\ store' = [store EXCEPT !.mu.writer = w,
                              !.g[w] = [Resting EXCEPT !.pc = "locked", !.op = op,
                                                       !.user = user, !.cfg = cfg]]
    /\ UNCHANGED <<sessions, toolMap, tools, mu, sess, smu, now, th, ret, hist, ex,
                   sch, tr>>

\* s.mu.Lock() called while Save or GetUserAIConfig hold the read lock: the
\* call waits, and RLock calls made from now on wait behind it
MutateBlocked(w, op, user, cfg) ==
    /\ store.g # <<>>
    /\ store.g[w].pc = "idle"
    /\ store.g[w].op = "none"
    /\ store.mu.writer = NoThread /\ store.mu.waiting = NoThread
    /\ store.mu.readers # {}
    /\ store' = [store EXCEPT !.mu.waiting = w,
                              !.g[w] = [Resting EXCEPT !.pc = "waiting", !.op = op,
                                                       !.user = user, !.cfg = cfg]]
    /\ UNCHANGED <<sessions, toolMap, tools, mu, sess, smu, now, th, ret, hist, ex,
                   sch, tr>>

\* ... the last reader has left: s.mu.Lock() returns
MutateUnblocked(w) ==
    /\ store.g # <<>>
    /\ store.g[w].pc = "waiting"
    /\ store.mu.readers = {}
    /\ store' = [store EXCEPT !.mu.writer = w, !.mu.waiting = NoThread,
                              !.g[w].pc = "locked"]
    /\ UNCHANGED <<sessions, toolMap, tools, mu, sess, smu, now, th, ret, hist, ex,
                   sch, tr>>

\* if _, ok := s.UserData[userID]; !ok { s.UserData[userID] = &UserSettings{} }
\* cfgCopy := cfg; s.UserData[userID].OverrideAI = &cfgCopy
updateEntry(data, user, cfg) == [data EXCEPT ![user] = cfg]

\* if user, ok := s.UserData[userID]; ok { user.OverrideAI = nil }
clearEntry(data, user) ==
    [data EXCEPT ![user] = IF @ = "absent" THEN "absent" ELSE "nil"]

\* ... the map is changed; s.mu.Unlock()
MutateUnlock(w) ==
    /\ store.g # <<>>
    /\ store.g[w].pc = "locked"
    /\ store.g[w].op \in {"Update", "Clear"}
    /\ store' = [store EXCEPT
          !.UserData = IF store.g[w].op = "Update"
                       THEN updateEntry(@, store.g[w].user, store.g[w].cfg)
                       ELSE clearEntry(@, store.g[w].user),
          !.applied = Append(@, [op |-> store.g[w].op, user |-> store.g[w].user,
                                 cfg |-> store.g[w].cfg]),
          !.mu.writer = NoThread,
          !.g[w].pc = "save"]
    /\ UNCHANGED <<sessions, toolMap, tools, mu, sess, smu, now, th, ret, hist, ex,
                   sch, tr>>

\* return s.Save(): s.mu.RLock(); defer s.mu.RUnlock();
\* data, err := json.MarshalIndent(s, "", "  ")
SaveMarshal(w) ==
    /\ store.g # <<>>
    /\ store.g[w].pc = "save"
    /\ store.mu.writer = NoThread /\ store.mu.waiting = NoThread
    /\ store' = [store EXCEPT !.mu.readers = @ \cup {w},
                              !.g[w].data = MarshalIndent(store.UserData),
                              !.g[w].pc = "marshalled"]
    /\ UNCHANGED <<sessions, toolMap, tools, mu, sess, smu, now, th, ret, hist, ex,
                   sch, tr>>

\* os.WriteFile(s.path, data, 0644): the file is opened and truncated, or
\* the open fails and Save returns the error
SaveOpen(w, failed) ==
    /\ store.g # <<>>
    /\ store.g[w].pc = "marshalled"
    /\ IF failed
       THEN store' = [store EXCEPT !.mu.readers = @ \ {w},
                                   !.g[w].pc = "idle", !.g[w].err = TRUE]
       ELSE store' = [store EXCEPT !.file = [exists |-> TRUE, data |-> <<>>],
                                   !.g[w].pc = "opened"]
    /\ UNCHANGED <<sessions, toolMap, tools, mu, sess, smu, now, th, ret, hist, ex,
                   sch, tr>>

\* ... the data is written and the file closed, or the write fails;
\* s.mu.RUnlock(); the call returns what Save returns
SaveWrite(w, failed) ==
    /\ store.g # <<>>
    /\ store.g[w].pc = "opened"
    /\ store' = [store EXCEPT !.file.data = IF failed THEN @ ELSE store.g[w].data,
                              !.mu.readers = @ \ {w},
                              !.g[w].pc = "idle", !.g[w].err = failed]
    /\ UNCHANGED <<sessions, toolMap, tools, mu, sess, smu, now, th, ret, hist, ex,
                   sch, tr>>

\* GetUserAIConfig(userID): s.mu.RLock(); defer s.mu.RUnlock()
GetLock(user) ==
    /\ store.g # <<>>
    /\ store.g[Reader].pc = "idle"
    /\ store.mu.writer = NoThread /\ store.mu.waiting = NoThread
    /\ store' = [store EXCEPT !.mu.readers = @ \cup {Reader},
                              !.g[Reader] = [Resting EXCEPT !.pc = "reading",
                                                            !.op = "Get", !.user = user]]
    /\ UNCHANGED <<sessions, toolMap, tools, mu, sess, smu, now, th, ret, hist, ex,
                   sch, tr>>

\* if user, ok := s.UserData[userID]; ok { return user.OverrideAI }; return nil
override(data, user) == IF data[user] = "absent" THEN "nil" ELSE data[user]

GetReturn ==
    /\ store.g # <<>>
    /\ store.g[Reader].pc = "reading"
    /\ store' = [store EXCEPT !.mu.readers = @ \ {Reader},
                              !.g[Reader].pc = "idle",
                              !.g[Reader].cfg = override(store.UserData, store.g[Reader].user),
                              !.g[Reader].seen = Len(store.applied)]
    /\ UNCHANGED <<sessions, toolMap, tools, mu, sess, smu, now, th, ret, hist, ex,
                   sch, tr>>

\* SetUserAIConfig (src/storage/storage.go): the map is changed as by
\* UpdateUserAIConfig; defer s.mu.Unlock(); return nil, Save is not called
SetReturn(w) ==
    /\ store.g # <<>>
    /\ store.g[w].pc = "locked"
    /\ store.g[w].op = "Set"
    /\ store' = [store EXCEPT
          !.UserData = updateEntry(@, store.g[w].user, store.g[w].cfg),
          !.applied = Append(@, [op |-> "Set", user |-> store.g[w].user,
                                 cfg |-> store.g[w].cfg]),
          !.mu.writer = NoThread,
          !.g[w].pc = "idle"]
    /\ UNCHANGED <<sessions, toolMap, tools, mu, sess, smu, now, th, ret, hist, ex,
                   sch, tr>>

SetUserAIConfig(w) ==
    \/ \E u \in {"u1", "u2"} : \E cfg \in Overrides : MutateLock(w, "Set", u, cfg)
    \/ \E u \in {"u1", "u2"} : \E cfg \in Overrides : MutateBlocked(w, "Set", u, cfg)
    \/ store.g # <<>> /\ store.g[w].op = "Set" /\ MutateUnblocked(w)
    \/ SetReturn(w)

UpdateUserAIConfig(w) ==
    \/ \E u \in {"u1", "u2"} : \E cfg \in Overrides : MutateLock(w, "Update", u, cfg)
    \/ \E u \in {"u1", "u2"} : \E cfg \in Overrides : MutateBlocked(w, "Update", u, cfg)
    \/ store.g # <<>> /\ store.g[w].op = "Update" /\ MutateUnblocked(w)
    \/ store.g # <<>> /\ store.g[w].op = "Update" /\ MutateUnlock(w)
    \/ store.g # <<>> /\ store.g[w].op = "Update" /\ SaveMarshal(w)
    \/ \E failed \in BOOLEAN :
          store.g # <<>> /\ store.g[w].op = "Update" /\ SaveOpen(w, failed)
    \/ \E failed \in BOOLEAN :
          store.g # <<>> /\ store.g[w].op = "Update" /\ SaveWrite(w, failed)

ClearUserAIConfig(w) ==
    \/ \E u \in {"u1", "u2"} : MutateLock(w, "Clear", u, "none")
    \/ \E u \in {"u1", "u2"} : MutateBlocked(w, "Clear", u, "none")
    \/ store.g # <<>> /\ store.g[w].op = "Clear" /\ MutateUnblocked(w)
    \/ store.g # <<>> /\ store.g[w].op = "Clear" /\ MutateUnlock(w)
    \/ store.g # <<>> /\ store.g[w].op = "Clear" /\ SaveMarshal(w)
    \/ \E failed \in BOOLEAN :
          store.g # <<>> /\ store.g[w].op = "Clear" /\ SaveOpen(w, failed)
    \/ \E failed \in BOOLEAN :
          store.g # <<>> /\ store.g[w].op = "Clear" /\ SaveWrite(w, failed)

GetUserAIConfig ==
    \/ \E u \in {"u1", "u2"} : GetLock(u)
    \/ GetReturn

(***************************************************************************)
(* The per-user store under concurrent use: two goroutines each change an  *)
(* override once, by UpdateUserAIConfig, ClearUserAIConfig or the          *)
(* SetUserAIConfig of src/storage/storage.go, while a third reads          *)
(* overrides.  The store was loaded                                        *)
(* from no file, or from a file that holds an override of u1 and an entry  *)
(* of u2 without one.                                                      *)
(***************************************************************************)
StoredFiles ==
    {[exists |-> FALSE, data |-> <<>>],
     [exists |-> TRUE,
      data |-> << [user_data |-> <<[user |-> "u1", override_ai |-> "A"],
                                   [user |-> "u2", override_ai |-> "omitted"]>>] >>]}

InitStorage ==
    /\ InitManager
    /\ sch = SchedulerOff
    /\ tr = NoRuns
    /\ \E file \in StoredFiles : store = LoadedStore(file)

NextStorage ==
    \/ \E w \in Mutators : UpdateUserAIConfig(w)
    \/ \E w \in Mutators : ClearUserAIConfig(w)
    \/ \E w \in Mutators : SetUserAIConfig(w)
    \/ GetUserAIConfig

SpecStorage == InitStorage /\ [][NextStorage]_vars

(***************************************************************************)
(* Every operation of the registry at once: one handler invokes a tool, a  *)
(* second lists the tools and checks health, and the host goroutine        *)
(* connects the configured servers and later shuts the registry down.      *)
(***************************************************************************)
NextLocks ==
    \/ /\ \/ ret["c1"].op = "none" /\ \E name \in InvokedTools : CallToolBegin("c1", name)
          \/ CallToolSteps("c1")
       /\ UNCHANGED <<ex, sch, tr, store>>
    \/ GetTools("c2") /\ UNCHANGED <<ex, sch, tr, store>>
    \/ HealthCheck("c2") /\ UNCHANGED <<ex, sch, tr, store>>
    \/ ConnectAtStartup(Admin, StaticConfig) /\ UNCHANGED <<ex, sch, tr, store>>
    \/ Close(Admin) /\ UNCHANGED <<ex, sch, tr, store>>
    \/ ConnectBehindReaders(Admin, StaticConfig) /\ UNCHANGED <<ex, sch, tr, store>>
    \/ CloseBehindReaders(Admin) /\ UNCHANGED <<ex, sch, tr, store>>

SpecLocks == Init /\ [][NextLocks]_vars

(***************************************************************************)
(* Two concurrent runs of ExecuteWithTools on one initial transcript,      *)
(* whose array is full or has room for one more message.                   *)
(***************************************************************************)
InitTranscripts ==
    /\ InitManager
    /\ sch = SchedulerOff
    /\ store = NoStore
    /\ \E cap \in {2, 3} : tr = CallerTranscript(cap)

NextTranscripts == \E r \in Runs : RunTranscript(r)

SpecTranscripts == InitTranscripts /\ [][NextTranscripts]_vars

(***************************************************************************)
(* Claims about the session registry.                                      *)
(***************************************************************************)
Connected == {p \in Providers : sessions[p] # NoSess}

\* C1: when exactly one provider of a ConnectServers call fails to connect,
\* every other provider of the call has been connected whatever the
\* iteration order: each has a session that HealthCheck's test reports
\* healthy, and the catalog holds every tool the reachable providers
\* advertise; on a registry that held no session before, the healthy
\* providers are exactly the reachable ones.
C1_OneFailureLeavesTheOthers ==
    LET r == ret[Admin] IN
    (r.op = "ConnectServers" /\ Cardinality(r.val.connFailed) = 1) =>
        LET reach == r.val.cfgs \ r.val.connFailed IN
        /\ \A p \in reach :
              /\ sessions[p] # NoSess
              /\ sess[sessions[p]].name = p
              /\ isHealthy(sess[sessions[p]])
              /\ Range(Advertised(p)) \subseteq Range(tools)
        /\ (Len(sess) = Cardinality(reach)) =>
              {p \in Connected : isHealthy(sess[sessions[p]])} = reach

\* C2: a CallTool whose two attempts both failed has incremented the
\* session's failCount exactly once.
C2_ExhaustedCallCountsOnce ==
    \A t \in Callers :
        (ret[t].op = "CallTool" /\ ret[t].kind = "InvocationFailed") =>
            ret[t].val.bumps = 1

\* C3: a CallTool begun after Close returned, for a tool name registered
\* before the close, returns SessionClosed without an attempt.
C3_SessionClosedAfterClose ==
    \A t \in Callers :
        (ret[t].op = "CallTool" /\ ret[t].val.afterShut /\ ret[t].val.known) =>
            (ret[t].kind = "SessionClosed" /\ ret[t].val.started = 0)

\* C4: every step of a CallTool for a name that was never registered leaves
\* all sessions and their locks untouched and starts no attempt, and the
\* call returns ToolNotFound.
C4_UnregisteredNameTouchesNothing ==
    [][\A t \in Callers :
          LET name == IF th[t].pc = "idle" THEN th'[t].tool ELSE th[t].tool IN
          (th'[t] # th[t] /\ name \notin hist'.registered) =>
              /\ sess' = sess
              /\ smu' = smu
              /\ th'[t].started = 0
              /\ (th[t].pc # "idle" /\ th'[t].pc = "idle") =>
                    (ret'[t].kind = "ToolNotFound" /\ ret'[t].val.started = 0)
      ]_vars

\* a never-registered name was looked up while a session with recorded
\* failures existed
C4_Witness ==
    /\ ret["c1"].op = "CallTool"
    /\ ret["c1"].kind = "ToolNotFound"
    /\ ret["c1"].val.tool \notin hist.registered
    /\ \E i \in 1..Len(sess) : sess[i].failCount > 0

\* C5: whenever the registry lock is not write-held, no entry of toolMap
\* points to a closed session.
C5_IndexNeverPointsToClosed ==
    (mu.writer = NoThread) =>
        \A n \in ToolNames :
            toolMap[n] # NoSess => ~sess[toolMap[n]].closed

\* sessions have been closed, and the index is populated again
C5_Witness ==
    /\ mu.writer = NoThread
    /\ \E i \in 1..Len(sess) : sess[i].closed
    /\ \E n \in ToolNames : toolMap[n] # NoSess

\* C6: no invocation attempt starts on a session that is marked closed.
C6_NoAttemptAfterClose ==
    [][\A t \in Callers :
          (th[t].pc = "ct_attempt" /\ th'[t].pc = "ct_inflight") =>
              ~sess[th[t].sess].closed
      ]_vars

\* C7: each entry HealthCheck records is true exactly when the session is
\* open and its failCount is below 5.
C7_HealthyIffOpenAndBelowThreshold ==
    [][\A t \in Threads : \A p \in Providers :
          (th[t].pc = "hc_read" /\ th[t].cur = p /\ th'[t].pc = "hc_loop") =>
              /\ th'[t].health[p] \in {"healthy", "unhealthy"}
              /\ (th'[t].health[p] = "healthy") <=>
                    (~sess[sessions[p]].closed /\ sess[sessions[p]].failCount < 5)
      ]_vars

\* HealthCheck has reported a provider with 5 recorded failures
C7_Witness ==
    /\ ret[Admin].op = "HealthCheck"
    /\ \E p \in Connected :
          /\ ret[Admin].val[p] = "unhealthy"
          /\ sess[sessions[p]].failCount = 5
    /\ \E p \in Connected : ret[Admin].val[p] = "healthy"

\* C8: HealthCheck records a session with 5 or more failures as unhealthy,
\* and one recorded success takes the counter to 0, where HealthCheck
\* records the open session as healthy.
C8_UnhealthyAtFiveHealthyAfterOneSuccess ==
    [][/\ \A t \in Threads : \A p \in Providers :
             (th[t].pc = "hc_read" /\ th[t].cur = p /\ th'[t].pc = "hc_loop") =>
                 /\ sess[sessions[p]].failCount >= 5 =>
                        th'[t].health[p] = "unhealthy"
                 /\ (sess[sessions[p]].failCount = 0 /\ ~sess[sessions[p]].closed) =>
                        th'[t].health[p] = "healthy"
       /\ \A t \in Callers :
             (th[t].pc = "ct_ok" /\ th'[t].pc = "idle") =>
                 sess'[th[t].sess].failCount = 0
      ]_vars

\* a success is being recorded on a session that HealthCheck reported
\* unhealthy with 5 or more failures
C8_Witness ==
    /\ th["c1"].pc = "ct_ok"
    /\ sess[th["c1"].sess].failCount >= 5
    /\ ret[Admin].op = "HealthCheck"
    /\ \E p \in Connected :
          /\ sessions[p] = th["c1"].sess
          /\ ret[Admin].val[p] = "unhealthy"

(***************************************************************************)
(* Claims about the conversation loop.                                     *)
(***************************************************************************)
\* C9: with maxIterations = N the loop never makes more than N tool-enabled
\* generations, and a run in which every generation asked for a tool and
\* none failed ends right after generation number N, returning the
\* iterations-exceeded error (tool_executor.go) or the reply of one forced
\* final generation (the other revision of the file).
C9_ExhaustedLoopStops ==
    LET N == IF ex.arg <= 0 THEN 5 ELSE ex.arg IN
    /\ ex.gens <= N
    /\ ex.summaries <= 1
    /\ (ex.pc = "done" /\ ex.toolTurns = ex.gens
          /\ ex.result.kind # "GenerationError") =>
          /\ ex.gens = N
          /\ ex.i = N
          /\ \/ ex.result.kind = "IterationsExceeded" /\ ex.summaries = 0
             \/ ex.result.kind = "Fallback" /\ ex.summaries = 1

\* maxIterations = 3, three generations each asking for a tool, then the error
C9_Witness ==
    /\ ex.pc = "done"
    /\ ex.arg = 3
    /\ ex.gens = 3
    /\ ex.toolTurns = 3
    /\ ex.result.kind = "IterationsExceeded"

\* C10: every run that begins ends, having made at most maxIterations
\* tool-enabled generations (5 when the argument is <= 0) and at most one
\* formatting generation; the forced final generation of the other revision
\* of the file, the only other call of Generate, is made at most once.
C10_BoundedAndTerminates ==
    /\ [](LET N == IF ex.arg <= 0 THEN 5 ELSE ex.arg IN
          /\ ex.gens <= N
          /\ ex.formats <= 1
          /\ ex.summaries <= 1
          /\ ex.pc # "idle" => ex.maxIterations = N)
    /\ (ex.pc # "idle") ~> (ex.pc = "done")

\* a run with maxIterations <= 0 has ended after 5 generations
C10_Witness ==
    /\ ex.pc = "done"
    /\ ex.arg <= 0
    /\ ex.gens = 5
    /\ ex.result.kind = "IterationsExceeded"

\* C11: a run without platform prompt whose first model turn carries no tool
\* calls has made exactly one generation, has invoked no tool, and returns
\* that turn's content unchanged.
C11_PlainAnswerInOneGeneration ==
    (/\ ex.pc = "done"
     /\ ex.platformPrompt = ""
     /\ Len(ex.messages) > Len(InitialMessages)
     /\ ex.messages[Len(InitialMessages) + 1].toolCalls = <<>>) =>
        LET turn == ex.messages[Len(InitialMessages) + 1] IN
        /\ ex.gens = 1
        /\ ex.formats = 0
        /\ ex.summaries = 0
        /\ ex.toolTurns = 0
        /\ ex.messages = Append(InitialMessages, turn)
        /\ ret[Runner].op = "GetTools"
        /\ ex.result = [kind |-> "ok", content |-> turn.content]

\* the first turn was the final answer "answer", returned as it is
C11_Witness ==
    /\ ex.pc = "done"
    /\ ex.platformPrompt = ""
    /\ ex.gens = 1
    /\ ex.toolTurns = 0
    /\ ex.result = [kind |-> "ok", content |-> "answer"]

\* the roles of a transcript, in order
Roles(msgs) == [k \in 1..Len(msgs) |-> msgs[k].role]

\* C12: a run in which the model asked for one tool on iteration 1 and gave
\* its final answer on iteration 2 ends with the transcript system, user,
\* assistant (1 tool call), tool (that call's id), assistant (no tool call),
\* and nothing else.
C12_OneToolThenAnswerTranscript ==
    (/\ ex.pc = "done"
     /\ ex.result.kind = "ok"
     /\ ex.gens = 2
     /\ ex.toolTurns = 1
     /\ Len(ex.last.toolCalls) = 1) =>
        /\ Roles(ex.messages) =
              <<"system", "user", "assistant", "tool", "assistant">>
        /\ SubSeq(ex.messages, 1, 2) = InitialMessages
        /\ ex.messages[3] = ex.last
        /\ ex.messages[4].toolCallID = ex.last.toolCalls[1].id
        /\ ex.messages[4].toolCalls = <<>>
        /\ ex.messages[5].toolCalls = <<>>
        /\ ex.messages[5].toolCallID = ""

\* one tool call that succeeded, then the final answer, formatted
C12_Witness ==
    /\ ex.pc = "done"
    /\ ex.result = [kind |-> "ok", content |-> "formatted"]
    /\ ex.gens = 2
    /\ ex.toolTurns = 1
    /\ Len(ex.messages) = 5
    /\ ex.messages[4].content = "result"

\* the positions of the assistant turns that carry tool calls
ToolTurns(msgs) ==
    {k \in 1..Len(msgs) : msgs[k].role = "assistant" /\ msgs[k].toolCalls # <<>>}

\* how many calls of the turn at position k have been processed
Processed(k) ==
    IF ex.pc \in {"toolcalls", "calling"} /\ \A j \in ToolTurns(ex.messages) : j <= k
    THEN Len(ex.messages[k].toolCalls) - Len(ex.pending)
    ELSE Len(ex.messages[k].toolCalls)

\* C13: every assistant turn with tool calls is followed by one tool message
\* per processed call, carrying that call's id, in the order of the calls, and
\* by no further tool message; once the turn's batch is over every call has
\* its message, whether it succeeded, failed or had unparsable arguments.
C13_OneToolMessagePerCallInOrder ==
    \A k \in ToolTurns(ex.messages) :
        LET calls == ex.messages[k].toolCalls
            n == Processed(k)
        IN  /\ n \in 0..Len(calls)
            /\ Len(ex.messages) >= k + n
            /\ \A j \in 1..n :
                  /\ ex.messages[k + j].role = "tool"
                  /\ ex.messages[k + j].toolCallID = calls[j].id
            /\ Len(ex.messages) > k + n => ex.messages[k + n + 1].role # "tool"
            /\ \A j \in 1..Len(ex.messages) :
                  (ex.messages[j].role = "tool" /\ j > k
                     /\ \A k2 \in ToolTurns(ex.messages) : k2 <= k \/ k2 > j) =>
                        j <= k + n

\* a finished run whose transcript holds a turn of two calls, one with
\* unparsable arguments and one for an unknown tool
C13_Witness ==
    /\ ex.pc = "done"
    /\ \E k \in ToolTurns(ex.messages) :
          /\ Len(ex.messages[k].toolCalls) = 2
          /\ ex.messages[k + 1].content = "Error executing tool: ToolNotFound"
          /\ ex.messages[k + 2].content = "Error parsing arguments"

\* C14: every tool message of the transcript carries the id of a tool call
\* of an assistant message at an earlier position.
C14_ToolCallIdEmittedEarlier ==
    \A j \in 1..Len(ex.messages) :
        ex.messages[j].role = "tool" =>
            \E k \in 1..(j - 1) :
                /\ ex.messages[k].role = "assistant"
                /\ \E c \in 1..Len(ex.messages[k].toolCalls) :
                      ex.messages[k].toolCalls[c].id = ex.messages[j].toolCallID

\* the transcript holds tool messages of two different assistant turns
C14_Witness ==
    /\ Cardinality(ToolTurns(ex.messages)) = 2
    /\ \E j \in 1..Len(ex.messages) :
          /\ ex.messages[j].role = "tool"
          /\ \A k \in ToolTurns(ex.messages) : k < j

\* C15: a tool-enabled generation that fails (it is counted and adds no
\* message) ends the run at once with the generation error, and from then on
\* the run makes no generation, invokes no tool and touches no session.
C15_GenerationFailureAborts ==
    [][/\ (ex'.gens = ex.gens + 1 /\ ex'.messages = ex.messages) =>
             /\ ex'.pc = "done"
             /\ ex'.result = [kind |-> "GenerationError", content |-> ""]
             /\ th'[Runner].pc = "idle"
       /\ (ex.pc = "done" /\ ex.result.kind = "GenerationError") =>
             /\ ex' = ex
             /\ th'[Runner] = th[Runner]
             /\ sess' = sess
      ]_vars

\* the second generation failed, after a turn whose tool call had succeeded
C15_Witness ==
    /\ ex.pc = "done"
    /\ ex.result.kind = "GenerationError"
    /\ ex.gens = 2
    /\ ex.toolTurns = 1
    /\ ex.summaries = 0
    /\ ex.messages[Len(ex.messages)].content = "result"

\* the errors CallTool returns
ToolErrors == {"ToolNotFound", "SessionClosed", "InvocationFailed"}

\* C16: when CallTool returns an error the loop appends a tool message with
\* the call's id and the error as its content and goes on with the remaining
\* calls of the turn; a turn's batch never ends the run: it is left only for
\* the next generation, with every call processed.
C16_ToolFailureNeverAborts ==
    [][/\ (ex.pc = "calling" /\ ex'.pc # "calling"
             /\ ret[Runner].kind \in ToolErrors) =>
             /\ ex'.pc = "toolcalls"
             /\ ex'.messages =
                   Append(ex.messages,
                          [role |-> "tool",
                           content |-> "Error executing tool: " \o ret[Runner].kind,
                           toolCalls |-> <<>>,
                           toolCallID |-> Head(ex.pending).id])
             /\ ex'.pending = Tail(ex.pending)
       /\ (ex.pc \in {"toolcalls", "calling"} /\ ex'.pc \notin {"toolcalls", "calling"}) =>
             /\ ex'.pc = "generate"
             /\ ex.pending = <<>>
             /\ ex'.i = ex.i + 1
             /\ ex'.result.kind = "none"
      ]_vars

\* a run went on to a later generation after one call met a closed session
\* and another an unknown tool
C16_Witness ==
    /\ ex.gens >= 2
    /\ \E j \in 1..Len(ex.messages) :
          ex.messages[j].content = "Error executing tool: SessionClosed"
    /\ \E j \in 1..Len(ex.messages) :
          ex.messages[j].content = "Error executing tool: ToolNotFound"

\* C17: the step the loop takes on a tool call whose argument payload is not
\* a JSON object (of the payloads here, only {} is one) appends a tool
\* message with the call's id and a parse error, goes on with the remaining
\* calls, and neither calls CallTool nor touches a session.
C17_NonObjectArgumentsRejected ==
    [][(/\ ex.pc = "toolcalls"
        /\ ex.pending # <<>>
        /\ Head(ex.pending).args # "{}"
        /\ ex' # ex) =>
            /\ ex'.pc = "toolcalls"
            /\ ex'.messages =
                  Append(ex.messages,
                         [role |-> "tool", content |-> "Error parsing arguments",
                          toolCalls |-> <<>>,
                          toolCallID |-> Head(ex.pending).id])
            /\ ex'.pending = Tail(ex.pending)
            /\ th' = th
            /\ sess' = sess
            /\ smu' = smu
      ]_vars

(***************************************************************************)
(* Claims about the tool invocation pipeline and shutdown.                 *)
(***************************************************************************)
\* C18: a CallTool starts at most 2 attempts; whenever an attempt is in
\* flight every earlier attempt of the call has failed; a successful call
\* returns right after the attempt that succeeded, and a call that gave up
\* made exactly 2 attempts.
C18_AtMostTwoAttempts ==
    \A t \in Callers :
        /\ th[t].started <= 2
        /\ th[t].pc \in {"ct_inflight", "ct_ok", "ct_fail"} =>
              /\ th[t].started = th[t].attempt + 1
              /\ th[t].bumps = th[t].attempt
        /\ (ret[t].op = "CallTool" /\ ret[t].kind = "ok") =>
              /\ ret[t].val.started \in {1, 2}
              /\ ret[t].val.bumps = ret[t].val.started - 1
        /\ (ret[t].op = "CallTool" /\ ret[t].kind = "InvocationFailed") =>
              /\ ret[t].val.started = 2
              /\ ret[t].val.bumps = 2
        /\ (ret[t].op = "CallTool"
              /\ ret[t].kind \in {"ToolNotFound", "SessionClosed"}) =>
              ret[t].val.started = 0

\* a call succeeded on its second attempt, after the 500 ms pause
C18_Witness ==
    /\ ret["c1"].op = "CallTool"
    /\ ret["c1"].kind = "ok"
    /\ ret["c1"].val.started = 2
    /\ ret["c1"].val.waits = <<500>>

\* C19: the step on which a successful CallTool returns leaves the session's
\* failCount at 0 and its lastUsed at the time just read, which is not
\* earlier than the old one; and while the caller has not begun another call
\* the counter stays 0.
C19_SuccessResetsCounterAndTime ==
    [][\A t \in Callers :
          /\ (th[t].pc = "ct_ok" /\ th'[t].pc = "idle") =>
                /\ ret'[t].kind = "ok"
                /\ sess'[th[t].sess].failCount = 0
                /\ sess'[th[t].sess].lastUsed = now'
                /\ now' >= now
                /\ now' >= sess[th[t].sess].lastUsed
                /\ now < MaxClock => now' > now
          /\ (ret'[t].op = "CallTool" /\ ret'[t].kind = "ok") =>
                sess'[ret'[t].val.sess].failCount = 0
      ]_vars

\* a call that succeeded only on its second attempt has returned, the
\* counter is back at 0 and lastUsed is later than the connection time
C19_Witness ==
    /\ th["c1"].pc = "idle"
    /\ ret["c1"].op = "CallTool"
    /\ ret["c1"].kind = "ok"
    /\ ret["c1"].val.bumps = 1
    /\ sess[ret["c1"].val.sess].failCount = 0
    /\ sess[ret["c1"].val.sess].lastUsed > 0

\* C20: the step on which Close returns leaves the session map, the index
\* and the catalog empty, and a GetTools after it returns no tool; no
\* connection is ever closed twice; and a Close begun after a Close has
\* returned, with no ConnectServers in between, changes nothing in the
\* registry or in any session and returns no error.
C20_CloseIsIdempotent ==
    [][/\ \A i \in 1..Len(sess') : sess'[i].closeCalls <= 1
       /\ (th[Admin].pc = "cl_loop" /\ th'[Admin].pc = "idle") =>
             /\ sessions' = [p \in Providers |-> NoSess]
             /\ toolMap' = [n \in ToolNames |-> NoSess]
             /\ tools' = <<>>
       /\ (th[Admin].pc = "gt_read" /\ th'[Admin].pc = "idle" /\ hist.shut) =>
             ret'[Admin].val = <<>>
       /\ (th'[Admin].pc \in {"cl_loop", "cl_close"} /\ th'[Admin].afterShut) =>
             th'[Admin].pending = {}
       /\ (th[Admin].pc \in {"cl_loop", "cl_close"} /\ th[Admin].afterShut) =>
             /\ sess' = sess
             /\ sessions' = sessions
             /\ toolMap' = toolMap
             /\ tools' = tools
             /\ th'[Admin].pc = "idle" => ret'[Admin].kind = "nil"
      ]_vars

\* a second Close has returned without error after a first one had closed
\* two sessions
C20_Witness ==
    /\ ret[Admin].op = "Close"
    /\ ret[Admin].val.afterShut
    /\ ret[Admin].kind = "nil"
    /\ Cardinality({i \in 1..Len(sess) : sess[i].closed /\ sess[i].closeCalls = 1}) = 2

(***************************************************************************)
(* Claims about connecting, the catalog and the sessions' lifetime.        *)
(***************************************************************************)
\* C21: after a ConnectServers on a fresh registry, a provider whose connect
\* or discovery failed owns no entry of the index, is not healthy by
\* HealthCheck's test, and the catalog holds only tools of the providers
\* that connected and listed all their tools.
C21_FailedProviderContributesNothing ==
    LET r == ret[Admin] IN
    (/\ r.op = "ConnectServers"
     /\ Len(sess) = Cardinality(r.val.cfgs \ r.val.connFailed)) =>
        LET failed == r.val.connFailed \cup r.val.discFailed
            good == r.val.cfgs \ failed
        IN  /\ \A n \in ToolNames :
                  toolMap[n] # NoSess => sess[toolMap[n]].name \notin failed
            /\ \A p \in failed :
                  sessions[p] # NoSess => ~isHealthy(sess[sessions[p]])
            /\ Range(tools) \subseteq UNION {Range(Advertised(q)) : q \in good}

\* C22: the catalog holds no tool name twice, and every name of the index
\* maps to one session, of a provider that advertises it.
C22_ToolNamesUnique ==
    /\ \A i, j \in 1..Len(tools) : tools[i] = tools[j] => i = j
    /\ \A n \in ToolNames :
          toolMap[n] # NoSess =>
              n \in Range(Advertised(sess[toolMap[n]].name))

\* C23: no step removes or renames a session object or takes its closed
\* flag back to false, and a step that puts a session into the session map
\* puts a newly allocated, open object there.
C23_SessionNeverResurrected ==
    [][/\ Len(sess') >= Len(sess)
       /\ \A i \in 1..Len(sess) :
             /\ sess'[i].name = sess[i].name
             /\ sess[i].closed => sess'[i].closed
       /\ \A p \in Providers :
             (sessions'[p] # sessions[p] /\ sessions'[p] # NoSess) =>
                 /\ Len(sess') = Len(sess) + 1
                 /\ sessions'[p] = Len(sess) + 1
                 /\ sess'[Len(sess) + 1] =
                       [name |-> p, lastUsed |-> now, failCount |-> 0,
                        closed |-> FALSE, closeCalls |-> 0]
      ]_vars

\* a provider is connected again after its first session was closed: the
\* closed object is still closed and the session map holds a later, open one
C23_Witness ==
    \E p \in Providers : \E i \in 1..Len(sess) :
        /\ sess[i].name = p
        /\ sess[i].closed
        /\ sessions[p] > i
        /\ ~sess[sessions[p]].closed

(***************************************************************************)
(* Claims about the final formatting pass.                                 *)
(***************************************************************************)
\* C24, as stated: a run with a platform prompt that reached a turn without
\* tool calls has made exactly one formatting generation.
C24_FormatsEveryFinalTurn ==
    (/\ ex.pc = "done"
     /\ ex.platformPrompt # ""
     /\ ex.result.kind = "ok") =>
        ex.formats = 1

\* C24, amended: a run with a platform prompt that reached a turn without
\* tool calls whose content is not empty has made exactly one formatting
\* generation; it returns the turn's content when that generation failed and
\* the formatted content when it succeeded.  When the turn's content is empty
\* no formatting generation is made and the empty content is returned.  A
\* run that made a formatting generation never ends in an error.
C24_FormatsNonEmptyFinalTurn ==
    /\ (ex.pc = "done" /\ ex.formats > 0) =>
          ex.result.kind \in {"ok", "Fallback"}
    /\ ex.formats > 0 => ex.platformPrompt # ""
    /\ (/\ ex.pc = "done"
        /\ ex.platformPrompt # ""
        /\ ex.result.kind = "ok") =>
           LET final == ex.messages[Len(ex.messages)] IN
           /\ final.role = "assistant"
           /\ final.toolCalls = <<>>
           /\ final.content # "" =>
                 /\ ex.formats = 1
                 /\ ex.formatted \in {"err", "ok"}
                 /\ ex.formatted = "err" => ex.result.content = final.content
                 /\ ex.formatted = "ok" => ex.result.content \in {"formatted", ""}
           /\ final.content = "" =>
                 /\ ex.formats = 0
                 /\ ex.formatted = "none"
                 /\ ex.result.content = ""

\* the formatting generation failed and the run returned the answer as it was
C24_Witness ==
    /\ ex.pc = "done"
    /\ ex.platformPrompt # ""
    /\ ex.formats = 1
    /\ ex.formatted = "err"
    /\ ex.result = [kind |-> "ok", content |-> "answer"]

(***************************************************************************)
(* Claims about deadlines and locking.                                     *)
(***************************************************************************)
\* C25: once the deadline of a run in progress has expired, the run starts no
\* further tool attempt, and the next thing it does is to return a timeout
\* error: no further generation, no further turn of the loop.
C25_DeadlineAbortsTheRun ==
    [][ (ex.expired /\ ex.pc # "done") =>
            /\ th'[Runner].started <= th[Runner].started
               \/ th[Runner].pc = "idle"
            /\ th[Runner].pc = "idle" => th'[Runner].pc = "idle"
            /\ ex' # ex =>
                  /\ ex'.pc = "done"
                  /\ ex'.result.kind = "Timeout"
                  /\ ex'.gens = ex.gens
                  /\ ex'.formats = ex.formats ]_vars

\* the goroutines inside ConnectServers or Close, between taking and
\* releasing the registry's write lock
Writing(threads) == {t \in Threads : threads[t].pc \in {"cs_loop", "cl_loop", "cl_close"}}

\* C26 as stated: while GetTools or the lookup of CallTool holds the read
\* lock, no ConnectServers or Close is in progress and the session map, the
\* catalog and the index do not change, so that a read sees them as they
\* were before or after the whole operation; they change only inside
\* ConnectServers or Close; and whenever one reader holds the lock another
\* can take it.
C26_ReadsNeverWait ==
    [][ /\ mu.readers # {} =>
              /\ Writing(th) = {}
              /\ <<sessions, tools, toolMap>>' = <<sessions, tools, toolMap>>
        /\ mu'.readers # {} => Writing(th') = {}
        /\ <<sessions, tools, toolMap>>' # <<sessions, tools, toolMap>> =>
              /\ mu.writer # NoThread
              /\ Writing(th) = {mu.writer}
        /\ (mu.readers = {"c1"} /\ th["c2"].pc = "idle") => ENABLED GetToolsBegin("c2")
      ]_vars

\* C26: while GetTools or the lookup of CallTool holds the read lock, no
\* ConnectServers or Close is in progress and the session map, the catalog and
\* the index do not change, so that a read sees them as they were before or
\* after the whole operation; they change only inside ConnectServers or Close;
\* a reader that holds the lock does not keep another from taking it while
\* no ConnectServers or Close waits for the lock, and once one waits a new
\* reader waits behind it.
C26_ReadsSeeWholeOperations ==
    [][ /\ mu.readers # {} =>
              /\ Writing(th) = {}
              /\ <<sessions, tools, toolMap>>' = <<sessions, tools, toolMap>>
        /\ mu'.readers # {} => Writing(th') = {}
        /\ <<sessions, tools, toolMap>>' # <<sessions, tools, toolMap>> =>
              /\ mu.writer # NoThread
              /\ Writing(th) = {mu.writer}
        /\ (mu.readers = {"c1"} /\ th["c2"].pc = "idle") =>
              (ENABLED GetToolsBegin("c2") <=> mu.waiting = NoThread)
      ]_vars

\* the lookup of one handler and the listing of the other hold the read lock
\* at the same time, after the servers were connected, and Close waits for
\* both
C26_Witness ==
    /\ mu.readers = {"c1", "c2"}
    /\ mu.waiting = Admin
    /\ th[Admin].pc = "cl_wait"
    /\ th["c1"].pc = "ct_lookup"
    /\ th["c2"].pc = "gt_read"
    /\ tools # <<>>

\* the session whose fields goroutine t is reading or writing in the given
\* state of the registry and of the goroutines, NoSess when it is at none
Accessing(map, threads, t) ==
    IF threads[t].pc \in {"ct_check", "ct_ok", "ct_fail"} THEN threads[t].sess
    ELSE IF threads[t].pc \in {"hc_read", "cl_close"} THEN map[threads[t].cur]
    ELSE NoSess

\* C27: a goroutine that reads or writes lastUsed, failCount or closed of a
\* session holds that session's lock; the fields of a session change only in
\* a step of the goroutine that holds its lock; and a goroutine whose tool
\* attempt is in flight holds neither the registry lock nor any session lock.
C27_SessionFieldsUnderSessionLock ==
    [][ /\ \A t \in Threads :
              /\ Accessing(sessions, th, t) # NoSess =>
                    smu[Accessing(sessions, th, t)] = t
              /\ th'[t].pc = "ct_inflight" =>
                    /\ t \notin mu'.readers
                    /\ mu'.writer # t
                    /\ \A i \in 1..Len(sess') : smu'[i] # t
        /\ \A i \in 1..Len(sess) :
              sess'[i] # sess[i] =>
                 /\ smu[i] # NoThread
                 /\ Accessing(sessions, th, smu[i]) = i
                 /\ th'[smu[i]] # th[smu[i]]
      ]_vars

\* both handlers have an attempt in flight on the same session, one of them
\* its second attempt
C27_Witness ==
    /\ th["c1"].pc = "ct_inflight"
    /\ th["c2"].pc = "ct_inflight"
    /\ th["c1"].sess = th["c2"].sess
    /\ th["c2"].attempt = 1
    /\ sess[th["c1"].sess].failCount = 1

(***************************************************************************)
(* Claims about the broadcast scheduler.                                   *)
(***************************************************************************)
\* the wall-clock reading, in seconds since local midnight of day 0, of the
\* configured time on the local date of instant t
ConfiguredOn(t) ==
    LocalDay(sch.zone, t) * Day + At(Parse(sch.time).hour, Parse(sch.time).minute, 0)

\* C28: the fire instant computed at instant now is today's configured time
\* if that lies after now and the configured time of tomorrow otherwise, and
\* it is neither before now nor more than 24 hours after it.
C28_NextFireTodayOrTomorrow ==
    sch.pc = "sleeping" =>
        LET today == ConfiguredOn(sch.now)
            future == \E t \in Date(sch.zone, LocalDay(sch.zone, sch.now),
                                    Parse(sch.time).hour, Parse(sch.time).minute) :
                         t > sch.now
        IN  /\ Wall(sch.zone, sch.next) = IF future THEN today ELSE today + Day
            /\ sch.now <= sch.next
            /\ sch.next <= sch.now + Day

\* C29: the fire instant computed after a fire is later than the instant just
\* fired and is the configured time of the day after it, and no instant is
\* fired twice.
C29_NextFireIsNextDay ==
    /\ \A i, j \in 1..Len(sch.fired) : sch.fired[i].due = sch.fired[j].due => i = j
    /\ (sch.pc = "sleeping" /\ sch.fired # <<>>) =>
          LET fired == sch.fired[Len(sch.fired)].due
          IN  /\ sch.next > fired
              /\ Wall(sch.zone, sch.next) = ConfiguredOn(fired) + Day

\* C30: when executePush has returned, it has handed the answer to SendTo
\* once for every configured target, in the configured order and whether or
\* not an earlier delivery failed, if the run ended without error in an answer
\* that is not empty; it has handed nothing to SendTo otherwise.  Nothing is
\* sent before the run has ended.
C30_DeliversToEveryTarget ==
    /\ sch.sent # <<>> => ex.pc = "done"
    /\ sch.pc = "returned" =>
          IF Succeeded(ex.result) /\ ex.result.content # ""
          THEN /\ Len(sch.sent) = Len(sch.targets)
               /\ \A i \in 1..Len(sch.sent) :
                     /\ sch.sent[i].target = sch.targets[i]
                     /\ sch.sent[i].text = ex.result.content
          ELSE sch.sent = <<>>

\* the delivery to the first of two targets failed and the second one was
\* served all the same
C30_Witness ==
    /\ sch.pc = "returned"
    /\ sch.sendTo
    /\ Len(sch.targets) = 2
    /\ Len(sch.sent) = 2
    /\ sch.sent[1].failed
    /\ ~sch.sent[2].failed
    /\ sch.sent[2].text = "answer"

\* the character of a decimal digit
DigitChar(n) ==
    CASE n = 0 -> "0" [] n = 1 -> "1" [] n = 2 -> "2" [] n = 3 -> "3"
      [] n = 4 -> "4" [] n = 5 -> "5" [] n = 6 -> "6" [] n = 7 -> "7"
      [] n = 8 -> "8" [] n = 9 -> "9"

\* the ways of writing hour:minute that the layout 15:04 stands for: the
\* hour with two digits or, below 10, with one; the minute with two
Written(hour, minute) ==
    LET mm == <<":", DigitChar(minute \div 10), DigitChar(minute % 10)>>
    IN  {<<DigitChar(hour \div 10), DigitChar(hour % 10)>> \o mm}
           \cup (IF hour < 10 THEN {<<DigitChar(hour)>> \o mm} ELSE {})

\* the configured time is no time of the day
Malformed(time) ==
    \A hour \in 0..23 : \A minute \in 0..59 : time \notin Written(hour, minute)

\* C31: a scheduler whose configured time is malformed never computes a fire
\* instant, never sleeps, runs no conversation loop and sends nothing; once
\* it has looked at the configuration it has left its loop, and nothing of
\* the registry or of the other goroutines is touched.
C31_MalformedTimeStopsTheDriver ==
    Malformed(sch.time) =>
        /\ sch.pc \in {"loop", "exited"}
        /\ sch.fired = <<>>
        /\ sch.sent = <<>>
        /\ sch.next = 0
        /\ ex = ExIdle
        /\ \A t \in Threads : th[t] = Idle
        /\ mu = [writer |-> NoThread, readers |-> {}, waiting |-> NoThread]

\* the driver has left its loop on the configured time 24:00
C31_Witness ==
    /\ sch.pc = "exited"
    /\ sch.time = <<"2", "4", ":", "0", "0">>
    /\ sch.fired = <<>>

(***************************************************************************)
(* Further claims about CallTool and Close.                                *)
(***************************************************************************)
\* the pauses of a call that has started n attempts: one before each attempt
\* but the first, of k times 500 ms before the attempt of index k
PausesBefore(n) == [k \in 1..(n - 1) |-> k * 500]

\* C32: at every point of a CallTool the pauses made so far are those before
\* the attempts started so far, none before the first; a call that succeeded
\* or gave up returns with exactly these pauses, so none follows a success or
\* the last failure.
C32_BackoffOnlyBetweenAttempts ==
    \A t \in Callers :
        /\ th[t].pc # "idle" =>
              th[t].waits = IF th[t].started = 0 THEN <<>>
                            ELSE PausesBefore(th[t].started)
        /\ (ret[t].op = "CallTool" /\ ret[t].kind \in {"ok", "InvocationFailed"}) =>
              /\ ret[t].val.waits = PausesBefore(ret[t].val.started)
              /\ Len(ret[t].val.waits) <= 1

\* a call gave up after two attempts with the one pause of 500 ms
C32_Witness ==
    /\ ret["c1"].op = "CallTool"
    /\ ret["c1"].kind = "InvocationFailed"
    /\ ret["c1"].val.started = 2
    /\ ret["c1"].val.waits = <<500>>

\* C33: the error of a CallTool that gave up carries the error of its second
\* attempt, the last one it made; while a call runs, the error it holds is
\* that of the latest attempt that failed.
C33_ErrorWrapsLastCause ==
    \A t \in Callers :
        /\ (ret[t].op = "CallTool" /\ ret[t].kind = "InvocationFailed") =>
              /\ ret[t].val.cause = 2
              /\ ret[t].val.cause = ret[t].val.started
        /\ th[t].pc = "ct_fail" => th[t].lastErr = th[t].attempt + 1
        /\ (ret[t].op = "CallTool" /\ ret[t].kind = "ok") => ret[t].val.cause = 0

\* the call of c1 gave up with the error of its second attempt, having
\* counted both failures
C33_Witness ==
    /\ ret["c1"].op = "CallTool"
    /\ ret["c1"].kind = "InvocationFailed"
    /\ ret["c1"].val.cause = 2
    /\ ret["c1"].val.bumps = 2

\* C34: a CallTool whose lookup gave it a session, and which finds that
\* session closed, returns SessionClosed on that very step, having started no
\* attempt and made no pause; neither that step nor the steps of the call
\* before it change any session or read the clock.
C34_ClosedSessionFailsFast ==
    [][\A t \in Callers :
          /\ (th[t].pc = "ct_check" /\ sess[th[t].sess].closed /\ th'[t] # th[t]) =>
                /\ th'[t].pc = "idle"
                /\ ret'[t].op = "CallTool"
                /\ ret'[t].kind = "SessionClosed"
                /\ ret'[t].val.started = 0
                /\ th[t].started = 0
                /\ th[t].waits = <<>>
          /\ (th[t].pc \in {"idle", "ct_lookup", "ct_lockcheck", "ct_check"}
                /\ th'[t] # th[t]) =>
                /\ sess' = sess
                /\ now' = now
      ]_vars

\* c1 was told SessionClosed: it looked its tool up before Close and checked
\* the session after it; the session shows no failure and no use
C34_Witness ==
    /\ ret["c1"].op = "CallTool"
    /\ ret["c1"].kind = "SessionClosed"
    /\ hist.shut
    /\ \A i \in 1..Len(sess) :
          sess[i].closed /\ sess[i].failCount = 0 /\ sess[i].lastUsed = 0

\* C35: when Close has returned, every session ever created is closed.
C35_CloseClosesEverySession ==
    ret[Admin].op = "Close" => \A i \in 1..Len(sess) : sess[i].closed

(***************************************************************************)
(* Further claims about the conversation loop.                             *)
(***************************************************************************)
\* what run r sees of its transcript, nothing before the run has begun
Transcript(t, r) ==
    IF t.runs[r].pc = "idle" THEN <<>> ELSE View(t.heap, t.runs[r].messages)

\* C36: every step leaves the messages a run already has where they are and
\* as they are, adding at most one at the end; the caller's slice and its
\* array are never written; and all a run has beyond the caller's messages
\* are messages of its own.
C36_TranscriptAppendOnlyAndPrivate ==
    [][ /\ \A r \in Runs :
              LET old == Transcript(tr, r)
                  new == Transcript(tr', r)
              IN  /\ tr.runs[r].pc # "idle" =>
                        /\ Len(new) \in {Len(old), Len(old) + 1}
                        /\ SubSeq(new, 1, Len(old)) = old
                  /\ \A k \in 1..Len(new) :
                        IF k <= tr.caller.len
                        THEN new[k] = tr.heap[tr.caller.arr][k]
                        ELSE new[k].by = r
        /\ tr'.caller = tr.caller
        /\ tr'.heap[tr.caller.arr] = tr.heap[tr.caller.arr]
      ]_vars

\* both runs have appended a model turn and two tool turns to their own
\* transcripts, starting from a caller's array that had room for one more
C36_Witness ==
    /\ tr.runs # <<>>
    /\ tr.caller.cap = 3
    /\ \A r \in Runs :
          /\ tr.runs[r].pc = "tools"
          /\ Len(Transcript(tr, r)) = 5
          /\ Transcript(tr, r)[5].role = "tool"

\* the tool messages of a model turn have all been appended
BatchAppended == ex.pc = "toolcalls" /\ ex.pending = <<>>

\* the loop is back at its head with the tool messages of the last model turn
\* at the end of the transcript
HoldsBatch ==
    /\ ex.pc = "generate"
    /\ ex.i > 0
    /\ ex.messages[Len(ex.messages)].role = "tool"

\* C37 as stated: once the tool messages of a model turn are appended the
\* loop goes back to its head, and from there it always makes another
\* generation call, which is given those messages.
C37_EveryBatchIsGeneratedOn ==
    [][ /\ BatchAppended => ex'.pc = "generate" /\ ex'.messages = ex.messages
        /\ HoldsBatch => ex'.gens = ex.gens + 1
      ]_vars

\* C37: once the tool messages of a model turn are appended the loop goes back
\* to its head with the transcript as it is; there, while fewer than
\* maxIterations generations have been made, it makes another tool-enabled
\* generation call, which is given those messages and whose reply, if any,
\* is appended after them; after the tool messages of generation number
\* maxIterations it makes no such call: the run is exhausted and ends with
\* the iterations-exceeded error (tool_executor.go) or goes to its one forced
\* final generation (the other revision of the file).
C37_BatchIsGeneratedOnWithinBound ==
    [][ /\ BatchAppended =>
              /\ ex'.pc = "generate"
              /\ ex'.i = ex.i + 1
              /\ ex'.messages = ex.messages
        /\ HoldsBatch =>
              IF ex.i < ex.maxIterations
              THEN /\ ex'.gens = ex.gens + 1
                   /\ \/ ex'.pc = "done" /\ ex'.result.kind = "GenerationError"
                                         /\ ex'.messages = ex.messages
                      \/ /\ Len(ex'.messages) = Len(ex.messages) + 1
                         /\ SubSeq(ex'.messages, 1, Len(ex.messages)) = ex.messages
                         /\ ex'.messages[Len(ex'.messages)].role = "assistant"
              ELSE /\ ex'.gens = ex.gens
                   /\ ex.gens = ex.maxIterations
                   /\ \/ ex'.pc = "done" /\ ex'.result.kind = "IterationsExceeded"
                      \/ ex'.pc = "summarize"
      ]_vars

\* a run of two iterations: the tool messages of the first generation were
\* given to the second, those of the second to none, and the run has ended
\* with the iterations-exceeded error
C37_Witness ==
    /\ ex.pc = "done"
    /\ ex.maxIterations = 2
    /\ ex.gens = 2
    /\ ex.toolTurns = 2
    /\ ex.result.kind = "IterationsExceeded"
    /\ ex.messages[Len(ex.messages)].role = "tool"
    /\ \E k \in 1..(Len(ex.messages) - 1) :
          ex.messages[k].role = "tool" /\ ex.messages[k + 1].role = "assistant"

\* C38: the handler's goroutine reads the catalog only as its run begins;
\* once read, the run's catalog stays what it is whatever ConnectServers and
\* Close do to the registry, and it is the catalog given to each
\* tool-enabled generation;
\* when CallTool no longer finds a requested tool in the index, its error
\* becomes the tool message of that call and the run goes on with the
\* remaining calls.
C38_CatalogReadOncePerRun ==
    [][ /\ th'[Runner].pc = "gt_read" => (th[Runner].pc = "gt_read" \/ ex.pc = "idle")
        /\ (ex.pc \notin {"idle", "gettools"} /\ ex'.pc # "gettools") =>
              ex'.tools = ex.tools
        /\ ex'.gens = ex.gens + 1 =>
              /\ ex'.offered = Append(ex.offered, ex.tools)
              /\ \A k \in 1..Len(ex'.offered) : ex'.offered[k] = ex'.tools
        /\ (ex.pc = "calling" /\ th[Runner].pc = "idle" /\ ex'.pc # "calling"
              /\ ret[Runner].kind = "ToolNotFound") =>
              /\ ex'.pc = "toolcalls"
              /\ ex'.pending = Tail(ex.pending)
              /\ ex'.messages =
                    Append(ex.messages,
                           ToolMsg(Head(ex.pending),
                                   "Error executing tool: ToolNotFound"))
      ]_vars

\* during the run Close has emptied the registry and a later ConnectServers
\* has registered the tool of another server: the first generation asked for
\* a tool of the catalog it was given, the tool was no longer in the index,
\* its error is in the transcript, and the second generation was given the
\* same catalog, which is not the one the registry now has
C38_Witness ==
    /\ ex.gens = 2
    /\ ex.offered[1] # <<>>
    /\ ex.offered[2] = ex.offered[1]
    /\ tools = <<"b">>
    /\ tools # ex.tools
    /\ sessions["p2"] # NoSess
    /\ ret[Admin].op = "ConnectServers" /\ ret[Admin].val.cfgs = {"p2"}
    /\ \E k \in 1..Len(ex.messages) :
          /\ ex.messages[k].role = "tool"
          /\ ex.messages[k].content = "Error executing tool: ToolNotFound"

(***************************************************************************)
(* Claims about the locks of the registry.                                 *)
(***************************************************************************)
\* the locks a goroutine holds
HoldsRegistry(m, t) == m.writer = t \/ t \in m.readers
SessionsHeld(s, t) == {i \in SessIds : s[i] = t}

\* some goroutine that is inside an operation takes its next step
Proceeds == NextLocks /\ \E t \in Threads : th[t].pc # "idle" /\ th'[t] # th[t]

\* C39: a goroutine outside every operation holds no lock; a goroutine takes
\* m.mu only while it holds no lock at all, takes a sess.mu only while it
\* holds no other sess.mu, and so never waits for m.mu with a sess.mu in
\* hand; the holder of a sess.mu can always take its next step; and
\* whenever goroutines are inside operations one of them can take its next
\* step.
C39_LocksOrderedAndReleased ==
    [][ /\ \A t \in Threads :
              /\ th[t].pc = "idle" =>
                    ~HoldsRegistry(mu, t) /\ SessionsHeld(smu, t) = {}
              /\ (HoldsRegistry(mu', t) /\ ~HoldsRegistry(mu, t)) =>
                    SessionsHeld(smu, t) = {} /\ SessionsHeld(smu', t) = {}
              /\ SessionsHeld(smu', t) # SessionsHeld(smu, t) =>
                    \/ SessionsHeld(smu', t) = {}
                    \/ SessionsHeld(smu, t) = {} /\ Cardinality(SessionsHeld(smu', t)) = 1
              /\ SessionsHeld(smu, t) # {} =>
                    ENABLED (NextLocks /\ th'[t] # th[t])
        /\ (\E t \in Threads : th[t].pc # "idle") => ENABLED Proceeds
      ]_vars

\* the three goroutines are inside CallTool, HealthCheck and Close at once:
\* the first holds the lock of a session, the second holds the read lock and
\* waits for that session, the third waits in m.mu.Lock() for the second
C39_Witness ==
    /\ th["c1"].pc = "ct_check"
    /\ th["c2"].pc = "hc_loop"
    /\ "c2" \in mu.readers
    /\ \E p \in th["c2"].pending : smu[sessions[p]] = "c1"
    /\ th[Admin].pc = "cl_wait"
    /\ mu.waiting = Admin
    /\ ret[Admin].op = "none"

(***************************************************************************)
(* Claims about the per-user store.                                        *)
(***************************************************************************)
\* the mutations of this user among the first n that were made
MutationsOf(user, n) ==
    SelectSeq(SubSeq(store.applied, 1, n), LAMBDA m : m.user = user)

\* what the last of them leaves as the user's override
LastOverride(user, n) ==
    LET ms == MutationsOf(user, n)
    IN  IF ms = <<>> THEN override(store.loaded, user)
        ELSE IF ms[Len(ms)].op \in {"Update", "Set"} THEN ms[Len(ms)].cfg
        ELSE "nil"

\* every call that was made has returned
AllReturned ==
    \A w \in Mutators \cup {Reader} : store.g[w].pc = "idle"

\* the calls that changed the map were UpdateUserAIConfig and
\* ClearUserAIConfig calls
OnlyUpdatesAndClears ==
    \A k \in 1..Len(store.applied) : store.applied[k].op \in {"Update", "Clear"}

\* C40: once the UpdateUserAIConfig and ClearUserAIConfig calls have all
\* returned, with or without an error (and no SetUserAIConfig, which never
\* saves, was among the calls), the file holds the map as it is in memory,
\* so that loading it gives what the mutation made last left; for each user
\* GetUserAIConfig then gives the override of the last Update of that user,
\* or nil if a Clear came last; and every GetUserAIConfig that has returned
\* gave what the last mutation of its user before it had left.
C40_FileEqualsMemoryAtRest ==
    store.g # <<>> =>
       /\ (AllReturned /\ OnlyUpdatesAndClears /\ store.applied # <<>>) =>
             /\ store.file = [exists |-> TRUE, data |-> MarshalIndent(store.UserData)]
             /\ Unmarshal(store.file) = store.UserData
             /\ \A u \in {"u1", "u2"} :
                   override(store.UserData, u) = LastOverride(u, Len(store.applied))
       /\ (store.g[Reader].pc = "idle" /\ store.g[Reader].op = "Get") =>
             store.g[Reader].cfg = LastOverride(store.g[Reader].user, store.g[Reader].seen)

====
